---------------------------- MODULE Spec2Model ----------------------------
(***************************************************************************)
(* Model of ssh-hypervisor: the IP pool (internal/vm/ippool.go), the VM    *)
(* manager (internal/vm/manager.go) and the SSH session handler            *)
(* (internal/server/server.go).                                            *)
(*                                                                         *)
(* The specifications share   the manager and pool actions:                  *)
(*   Spec     - callers invoke GetOrCreateVM / GetVM / ReleaseVM /         *)
(*              DestroyVM on one Manager in any order and interleaving;    *)
(*   SpecSrv  - SSH sessions run Server.sshHandler against the Manager;    *)
(*   SpecVal  - one caller tries ids against the validation of the Manager;*)
(*   SpecPool - Allocate and Release on an IPPool of its own;              *)
(*   SpecRun  - the server process from main to exit, run again and again  *)
(*              on one host.                                               *)
(***************************************************************************)
EXTENDS Integers, Sequences, FiniteSets, TLC

(***************************************************************************)
(* Bounds of the model.                                                    *)
(***************************************************************************)
NumThreads == 2      \* concurrent callers of the Manager / concurrent sessions
MaxCalls == 3        \* GetOrCreateVM calls begun in one behaviour
MaxHostBits == 3     \* largest VM network of the model is a /(32 - MaxHostBits)
MaxCap == 2          \* largest MaxConcurrentVMs of the model (0 = unlimited)
MaxPoolOps == 8      \* Allocate / Release calls made in one behaviour of SpecPool
LogLen == 3          \* pool calls remembered in plog
MaxRuns == 2         \* startups of the server process on one host (SpecRun)
MaxOpen == 2         \* sessions open at once in SpecRun

(***************************************************************************)
(* Program constants.                                                      *)
(***************************************************************************)
MaxIDLen == 48
MinHostBits == 2

Threads == 1..NumThreads

\* VM ids are strings, held as tuples of one-character strings.
Charset == {"a", "b", "-", "_", "0", "Z"}
Alice == <<"a">>
Bob == <<"b">>
BadId == <<"a", "/">>
Ids == {Alice, Bob, BadId}

\* the ids tried against the validation of createVMInternal (SpecVal): the
\* empty id, ids of the greatest accepted length and one character more,
\* and ids with a character outside the set at the start, inside, at the end
EmptyId == <<>>
FullId == [i \in 1..MaxIDLen |-> "Z"]
LongId == [i \in 1..(MaxIDLen + 1) |-> "a"]
ValIds == {Alice, <<"b", "-", "_", "0">>, EmptyId, FullId, LongId, BadId,
           <<"/", "a">>, <<"a", "/", "b">>, <<"/">>}

NoThread == 0
NoVM == 0
NoIP == <<>>

(***************************************************************************)
(* IP addresses are 4-byte slices (net.IP); arithmetic is byte-wise as in  *)
(* the source.                                                             *)
(***************************************************************************)
RECURSIVE Pow2(_)
Pow2(n) == IF n = 0 THEN 1 ELSE 2 * Pow2(n - 1)

Min(a, b) == IF a < b THEN a ELSE b
Max(a, b) == IF a > b THEN a ELSE b

\* net.CIDRMask(ones, 32)
MaskByte(ones, i) == 256 - Pow2(8 - Max(0, Min(8, ones - 8 * (i - 1))))
CIDRMask(ones) ==
    <<MaskByte(ones, 1), MaskByte(ones, 2), MaskByte(ones, 3), MaskByte(ones, 4)>>

\* b & m and b | ^m for a byte b and a prefix-mask byte m
AndByte(b, m) == b - (b % (256 - m))
OrNotByte(b, m) == b - (b % (256 - m)) + (256 - m) - 1

\* net.IP.Mask
MaskIP(ip, mask) ==
    <<AndByte(ip[1], mask[1]), AndByte(ip[2], mask[2]),
      AndByte(ip[3], mask[3]), AndByte(ip[4], mask[4])>>

\* net.IPNet.Contains
Contains(nw, ip) ==
    \A i \in 1..4 : AndByte(nw.IP[i], nw.Mask[i]) = AndByte(ip[i], nw.Mask[i])

\* inc increments an IP address, carrying from the last byte
RECURSIVE incFrom(_, _)
incFrom(a, j) ==
    IF j = 0 THEN a
    ELSE IF (a[j] + 1) % 256 > 0
         THEN [a EXCEPT ![j] = (a[j] + 1) % 256]
         ELSE incFrom([a EXCEPT ![j] = (a[j] + 1) % 256], j - 1)

inc(a) == incFrom(a, 4)

isBroadcast(ip, nw) ==
    ip = <<OrNotByte(nw.IP[1], nw.Mask[1]), OrNotByte(nw.IP[2], nw.Mask[2]),
           OrNotByte(nw.IP[3], nw.Mask[3]), OrNotByte(nw.IP[4], nw.Mask[4])>>

isGatewayNever(ip, nw) == FALSE

isGateway(ip, nw) ==
    ip = inc(MaskIP(nw.IP, nw.Mask))

Gateway(nw) == inc(MaskIP(nw.IP, nw.Mask))

\* net.IPMask.Size: the prefix length of a mask
MaskOnes(mask) == CHOOSE n \in 0..32 : CIDRMask(n) = mask

\* one iteration of the loop of NewIPPool on st = <<ip, pool.available>>:
\* nothing once ip has left the network; otherwise ip is appended unless it is
\* the network, broadcast or gateway address, and ip is incremented
loopStep(nw, st) ==
    IF ~Contains(nw, st[1]) THEN st
    ELSE <<inc(st[1]),
           IF st[1] # nw.IP /\ ~isBroadcast(st[1], nw) /\ ~isGateway(st[1], nw)
           THEN Append(st[2], st[1]) ELSE st[2]>>

\* 2^k iterations of the loop, each half evaluated before the next
RECURSIVE loopRun(_, _, _)
loopRun(nw, st, k) ==
    IF k = 0 THEN loopStep(nw, st)
    ELSE CHOOSE r \in {loopRun(nw, mid, k - 1) : mid \in {loopRun(nw, st, k - 1)}} : TRUE

\* the loop of NewIPPool: every address of the network in increasing order,
\* skipping network, broadcast and gateway; a network of h host bits is left
\* after 2^h iterations, and 2^(h+1) are run
poolLoop(nw, ip, acc) == loopRun(nw, <<ip, acc>>, 33 - MaskOnes(nw.Mask))[2]

NewIPPoolList(nw) == poolLoop(nw, MaskIP(nw.IP, nw.Mask), <<>>)

\* a NewIPPool without the check of the list's length
NewIPPoolOkAlways(nw) == TRUE

\* NewIPPool fails when the list is empty
NewIPPoolOk(nw) == Len(NewIPPoolList(nw)) > 0

\* the networks of the model: 192.168.100.0/p
Net(ones) == [IP |-> <<192, 168, 100, 0>>, Mask |-> CIDRMask(ones)]


(***************************************************************************)
(* State.                                                                  *)
(***************************************************************************)
VARIABLES
    cap,          \* config.MaxConcurrentVMs
    network,      \* IPPool.network
    available,    \* IPPool.available: ordered list of allocatable addresses
    allocated,    \* IPPool.allocated: keys of the map (ip.String() of 4-byte IPs)
    mutex,        \* Manager.mutex: the thread holding the writer lock, or NoThread
                  \* (SpecConc: IPPool.mu, the thread holding it)
    vms,          \* Manager.vms: id -> index of the VM object in insts
    vmRefs,       \* Manager.vmRefs: id -> reference count
    insts,        \* the VM objects that are or were in the map, and the one
                  \* being built: [ID, IP, ctx, machine, proc]
    orphans,      \* monitors left running by a failed create: <<id, ctx>>
    dirs,         \* ids whose scratch directory <DataDir>/<id> exists
    rootfs,       \* ids whose scratch directory holds rootfs.img
    taps,         \* names (numbers N of sshvm-tap-N) of the TAP devices on the host
    call,         \* per thread: the Manager call in progress
                  \* (SpecConc: the pool call in progress and the address held)
    ncalls,       \* GetOrCreateVM calls begun so far (SpecPool: pool calls made)
    ctxDone,      \* per thread: the context passed to GetOrCreateVM is cancelled
    sess,         \* per thread (SpecSrv): the SSH session run by sshHandler
    plog,         \* (SpecPool) the last calls made on the IPPool and what they
                  \* returned: [op, ip, ok], and for a Release whether
                  \* the address was allocated when it was called (held)
    srv           \* (SpecRun) the server process and the host state that
                  \* outlives it: packet-filter rules, user_stats.json

vars == <<cap, network, available, allocated, mutex, vms, vmRefs, insts, orphans,
          dirs, rootfs, taps, call, ncalls, ctxDone, sess, plog, srv>>

\* a session: hpc is the handler's position, user the SSH user name, done
\* the outer session context, vmDone / vmErr / vmReady the buffered
\* channels, vmCreateFailed the closed flag of that channel, ppc and rpc the
\* progress and probe goroutines (progressDone is closed when ppc = "done"),
\* testVM the handler's VM, acquired whether the session's GetOrCreateVM
\* returned a VM, releases the number of ReleaseVM calls the handler made,
\* probed that the probe goroutine's waitForVMSSH returned nil, bar100 that
\* a 100% bar was written to the session, cleared that the renderer cleared
\* its row when it returned, perr what proxySSHToVM returned and msg that
\* the handler printed that error to the session
IdleSess == [hpc |-> "idle", user |-> <<>>, done |-> FALSE, vmDone |-> NoVM,
             vmErr |-> "none", vmReady |-> FALSE, vmCreateFailed |-> FALSE,
             ppc |-> "none", rpc |-> "none", testVM |-> NoVM,
             acquired |-> FALSE, releases |-> 0,
             probed |-> FALSE, bar100 |-> FALSE, cleared |-> FALSE,
             perr |-> "none", msg |-> FALSE]

\* (tap: the call's setupTAPDevice has created the TAP device)
\* the host without the bridge sshvm-br0: addr the addresses on the bridge,
\* up its link state, fwd the sysctl net.ipv4.ip_forward
NoBridge == [exists |-> FALSE, addr |-> {}, up |-> FALSE, fwd |-> FALSE]

\* no server process yet, on a host without rules, bridge and stats file;
\* mgr: NewManager has succeeded in the current run, assigned: the address
\* arguments of the ip addr add commands the program has run
IdleSrv == [pc |-> "off", rules |-> [FORWARD |-> <<>>, POSTROUTING |-> <<>>],
            users |-> {}, file |-> {}, seen |-> {}, open |-> 0, runs |-> 0,
            saved |-> FALSE, exit |-> "none", host |-> NoBridge, mgr |-> FALSE,
            assigned |-> {}]

IdleCall == [op |-> "none", id |-> <<>>, pc |-> "idle", ip |-> NoIP,
             vm |-> NoVM, refCount |-> 0, res |-> "none", tap |-> FALSE]

\* map helpers (Go's m[k] = v and delete(m, k))
MapPut(m, k, v) == [x \in DOMAIN m \cup {k} |-> IF x = k THEN v ELSE m[x]]
MapDel(m, k) == [x \in DOMAIN m \ {k} |-> m[x]]

(***************************************************************************)
(* IPPool operations.                                                      *)
(***************************************************************************)
\* an Allocate that hands out the first address again when none is free
AllocIndexWrap(avail, alloc) ==
    IF \E i \in 1..Len(avail) : avail[i] \notin alloc
    THEN CHOOSE i \in 1..Len(avail) :
            /\ avail[i] \notin alloc
            /\ \A j \in 1..(i - 1) : avail[j] \in alloc
    ELSE 1

\* an Allocate that scans the list from its end
AllocIndexLast(avail, alloc) ==
    IF \E i \in 1..Len(avail) : avail[i] \notin alloc
    THEN CHOOSE i \in 1..Len(avail) :
            /\ avail[i] \notin alloc
            /\ \A j \in (i + 1)..Len(avail) : avail[j] \in alloc
    ELSE 0

\* IPPool.Allocate: the first address of the list that is not allocated;
\* 0 when there is none
AllocIndex(avail, alloc) ==
    IF \E i \in 1..Len(avail) : avail[i] \notin alloc
    THEN CHOOSE i \in 1..Len(avail) :
            /\ avail[i] \notin alloc
            /\ \A j \in 1..(i - 1) : avail[j] \in alloc
    ELSE 0

\* a Release that flips the mark of ip
PoolReleaseToggle(alloc, ip) ==
    IF ip \in alloc THEN alloc \ {ip} ELSE alloc \cup {ip}

\* a Release that keeps the key of ip in the map
PoolReleaseKeep(alloc, ip) == alloc \cup {ip}

\* IPPool.Release
PoolRelease(alloc, ip) == alloc \ {ip}

\* IPPool.Available
Available == Len(available) - Cardinality(allocated)

(***************************************************************************)
(* VM id validation of createVMInternal.                                   *)
(***************************************************************************)
\* strings.Trim(s, cutset): strip leading and trailing characters of cutset
RECURSIVE TrimLeft(_, _)
TrimLeft(s, cutset) ==
    IF Len(s) > 0 /\ s[1] \in cutset THEN TrimLeft(Tail(s), cutset) ELSE s

RECURSIVE TrimRight(_, _)
TrimRight(s, cutset) ==
    IF Len(s) > 0 /\ s[Len(s)] \in cutset
    THEN TrimRight(SubSeq(s, 1, Len(s) - 1), cutset) ELSE s

Trim(s, cutset) == TrimRight(TrimLeft(s, cutset), cutset)

\* a length test that is off by one
ValidateIDOffByOne(vmID) ==
    IF vmID = <<>> THEN "empty"
    ELSE IF Trim(vmID, Charset) # <<>> THEN "invalid"
    ELSE IF Len(vmID) >= MaxIDLen THEN "toolong"
    ELSE "ok"

ValidateID(vmID) ==
    IF vmID = <<>> THEN "empty"
    ELSE IF Trim(vmID, Charset) # <<>> THEN "invalid"
    ELSE IF Len(vmID) > MaxIDLen THEN "toolong"
    ELSE "ok"

\* a vmNetID taken from the last but one byte of the IP alone
VmNetIDThirdByte(ip) == ip[3]

\* a vmNetID taken from the last byte of the IP alone
VmNetIDLastByte(ip) == ip[4]

\* vmNetID of VM.Start: the last two bytes of the IP as a 16-bit number
VmNetID(ip) == ip[3] * 256 + ip[4]

\* strings are tuples of one-character strings
DecChars == <<"0", "1", "2", "3", "4", "5", "6", "7", "8", "9">>
HexChars == DecChars \o <<"a", "b", "c", "d", "e", "f">>

\* fmt %d of a non-negative number
RECURSIVE FmtDec(_)
FmtDec(n) ==
    IF n < 10 THEN <<DecChars[n + 1]>>
    ELSE Append(FmtDec(n \div 10), DecChars[(n % 10) + 1])

\* fmt %02x: lower-case hexadecimal, padded with zeros to two digits
RECURSIVE FmtHex(_)
FmtHex(n) ==
    IF n < 16 THEN <<HexChars[n + 1]>>
    ELSE Append(FmtHex(n \div 16), HexChars[(n % 16) + 1])

FmtHex02(n) == IF n < 16 THEN <<"0">> \o FmtHex(n) ELSE FmtHex(n)

\* tapName of VM.Start: fmt.Sprintf("sshvm-tap-%d", vmNetID)
TapName(n) == <<"s", "s", "h", "v", "m", "-", "t", "a", "p", "-">> \o FmtDec(n)

\* MacAddress of VM.Start:
\* fmt.Sprintf("02:FC:00:00:%02x:%02x", vmNetID>>8, vmNetID&0xFF)
MacAddress(n) ==
    <<"0", "2", ":", "F", "C", ":", "0", "0", ":", "0", "0", ":">>
        \o FmtHex02(n \div 256) \o <<":">> \o FmtHex02(n % 256)

(***************************************************************************)
(* Initial state: NewManager over a network NewIPPool accepts.             *)
(***************************************************************************)
\* the VM networks of Spec and SpecSrv
ManagerNets == {Net(32 - hb) : hb \in MinHostBits..MaxHostBits}

InitManagerOn(nets) ==
    /\ cap \in 0..MaxCap
    /\ \E nw \in nets :
          /\ NewIPPoolOk(nw)
          /\ network = nw
          /\ available = NewIPPoolList(nw)
    /\ allocated = {}
    /\ mutex = NoThread
    /\ vms = <<>>
    /\ vmRefs = <<>>
    /\ insts = <<>>
    /\ orphans = {}
    /\ dirs = {}
    /\ rootfs = {}
    /\ taps = {}
    /\ call = [t \in Threads |-> IdleCall]
    /\ ncalls = 0
    /\ ctxDone = [t \in Threads |-> FALSE]

InitManager == InitManagerOn(ManagerNets)

Init ==
    /\ InitManager
    /\ sess = [t \in Threads |-> IdleSess]
    /\ plog = <<>>
    /\ srv = IdleSrv

(***************************************************************************)
(* Manager calls, one step at a time.  A call takes the writer lock with   *)
(* its first step, runs the steps of its body and returns with Ret, the    *)
(* deferred Unlock.                                                        *)
(***************************************************************************)
\* a Lock() that does not wait for the holder
TryLockNoWait(t) == TRUE

\* m.mutex.Lock() succeeds
TryLock(t) == mutex = NoThread

\* what the caller has after the return: ReleaseVM and DestroyVM return
\* only an error, GetOrCreateVM and GetVM a VM and an error or flag
Returned(c) ==
    IF c.op \in {"ReleaseVM", "DestroyVM"} THEN IdleCall
    ELSE [IdleCall EXCEPT !.pc = "done", !.res = c.res, !.vm = c.vm]

\* deferred m.mutex.Unlock() and return
Ret(t) ==
    /\ call[t].pc = "ret"
    /\ mutex' = NoThread
    /\ call' = [call EXCEPT ![t] = Returned(call[t])]
    /\ UNCHANGED <<cap, network, available, allocated, vms, vmRefs, insts, orphans,
                   dirs, rootfs, taps, ncalls, ctxDone>>

\* a step of the body that ends the call with an error (ip stays the
\* address the call allocated, if any, until the return)
Fail(t, err) ==
    [call EXCEPT ![t].res = err, ![t].pc = "ret", ![t].vm = NoVM]

\* the decision without the capacity check
GocBranchNoCap(id) ==
    IF id \in DOMAIN vms THEN "existing" ELSE "create"

\* the decision with the capacity check off by one
GocBranchOffByOne(id) ==
    IF id \in DOMAIN vms THEN "existing"
    ELSE IF cap > 0 /\ Cardinality(DOMAIN vms) > cap THEN "capacity"
    ELSE "create"

\* the decision with the capacity check made before the lookup
GocBranchCapFirst(id) ==
    IF cap > 0 /\ Cardinality(DOMAIN vms) >= cap THEN "capacity"
    ELSE IF id \in DOMAIN vms THEN "existing"
    ELSE "create"

\* the decision of GetOrCreateVM after the lock: the existing VM, the
\* capacity error, or a create
GocBranch(id) ==
    IF id \in DOMAIN vms THEN "existing"
    ELSE IF cap > 0 /\ Cardinality(DOMAIN vms) >= cap THEN "capacity"
    ELSE "create"

\* GetOrCreateVM: lock, existing-VM branch and capacity check
GocCheck(t) ==
    /\ call[t].pc = "lock"
    /\ call[t].op = "GetOrCreateVM"
    /\ TryLock(t)
    /\ mutex' = t
    /\ LET id == call[t].id IN
       CASE GocBranch(id) = "existing" ->
              /\ vmRefs' = [vmRefs EXCEPT ![id] = vmRefs[id] + 1]
              /\ call' = [call EXCEPT ![t].vm = vms[id], ![t].res = "ok", ![t].pc = "ret"]
         [] GocBranch(id) = "capacity" ->
              /\ call' = Fail(t, "errCapacity")
              /\ UNCHANGED vmRefs
         [] GocBranch(id) = "create" ->
              /\ call' = [call EXCEPT ![t].pc = "alloc"]
              /\ UNCHANGED vmRefs
    /\ UNCHANGED <<cap, network, available, allocated, vms, insts, orphans,
                   dirs, rootfs, taps, ncalls, ctxDone>>

\* createVMInternal: validate the id, allocate the IP
CreateAlloc(t) ==
    /\ call[t].pc = "alloc"
    /\ LET i == AllocIndex(available, allocated) IN
       IF ValidateID(call[t].id) # "ok"
       THEN /\ call' = Fail(t, "errInvalid")
            /\ UNCHANGED allocated
       ELSE IF i = 0
       THEN /\ call' = Fail(t, "errAlloc")
            /\ UNCHANGED allocated
       ELSE /\ allocated' = allocated \cup {available[i]}
            /\ call' = [call EXCEPT ![t].ip = available[i], ![t].pc = "mkdir"]
    /\ UNCHANGED <<cap, network, available, mutex, vms, vmRefs, insts, orphans,
                   dirs, rootfs, taps, ncalls, ctxDone>>

\* a rollback that does not give the address back
RollbackPoolKeep(t) == allocated

\* the rollback of createVMInternal: m.ipPool.Release(ip), and once the
\* directory exists os.RemoveAll(vmDataDir)
RollbackPool(t) == PoolRelease(allocated, call[t].ip)
RollbackDirs(t) == dirs \ {call[t].id}

\* createVMInternal: os.MkdirAll of the scratch directory, then the VM object
CreateMkdir(t) ==
    /\ call[t].pc = "mkdir"
    /\ \E ok \in BOOLEAN :
          /\ (call[t].id \in dirs) => ok    \* MkdirAll of an existing directory succeeds
          /\ IF ok
             THEN /\ dirs' = dirs \cup {call[t].id}
                  /\ insts' = Append(insts, [ID |-> call[t].id, IP |-> call[t].ip,
                                             ctx |-> t, machine |-> FALSE, proc |-> "none"])
                  /\ call' = [call EXCEPT ![t].vm = Len(insts) + 1, ![t].pc = "rootfs"]
                  /\ UNCHANGED allocated
             ELSE /\ allocated' = RollbackPool(t)
                  /\ call' = Fail(t, "errMkdir")
                  /\ UNCHANGED <<dirs, insts>>
    /\ UNCHANGED <<cap, network, available, mutex, vms, vmRefs, orphans,
                   rootfs, taps, ncalls, ctxDone>>

\* a failed create drops its VM object; a monitor it left running stays
\* on the host (tap: the TAP device was created before the failure)
FailCreateTap(t, err, running, tap) ==
    /\ allocated' = RollbackPool(t)
    /\ dirs' = RollbackDirs(t)
    /\ rootfs' = rootfs \ (dirs \ dirs')
    /\ insts' = SubSeq(insts, 1, Len(insts) - 1)
    /\ orphans' = IF running THEN orphans \cup {<<call[t].id, t>>} ELSE orphans
    /\ call' = [Fail(t, err) EXCEPT ![t].tap = tap]

FailCreate(t, err, running) == FailCreateTap(t, err, running, call[t].tap)

\* createVMInternal: copy the rootfs template unless rootfs.img exists
CreateRootfs(t) ==
    /\ call[t].pc = "rootfs"
    /\ \E ok \in BOOLEAN :
          /\ (call[t].id \in rootfs) => ok   \* no copy is attempted
          /\ IF ok
             THEN /\ rootfs' = rootfs \cup {call[t].id}
                  /\ call' = [call EXCEPT ![t].pc = "tap"]
                  /\ UNCHANGED <<allocated, dirs, insts, orphans>>
             ELSE FailCreate(t, "errRootfs", FALSE)
    /\ UNCHANGED <<cap, network, available, mutex, vms, vmRefs,
                   taps, ncalls, ctxDone>>

\* VM.Start up to setupTAPDevice: delete a device of that name, create the
\* TAP, attach it, bring it up; any of the four commands may fail
StartTap(t) ==
    /\ call[t].pc = "tap"
    /\ LET n == VmNetID(call[t].ip) IN
       \E out \in {"ok", "failDelete", "failCreate", "failAttach"} :
          /\ (out = "failDelete") => n \in taps
          /\ taps' = CASE out = "ok" -> taps \cup {n}
                       [] out = "failDelete" -> taps
                       [] out = "failCreate" -> taps \ {n}
                       [] out = "failAttach" -> taps \cup {n}
          /\ IF out = "ok"
             THEN /\ call' = [call EXCEPT ![t].pc = "launch", ![t].tap = TRUE]
                  /\ UNCHANGED <<allocated, dirs, rootfs, insts, orphans>>
             ELSE FailCreateTap(t, "errStart", FALSE, out = "failAttach")
    /\ UNCHANGED <<cap, network, available, mutex, vms, vmRefs,
                   ncalls, ctxDone>>

\* VM.Start: console pipe and log, NewMachine, vm.machine = machine,
\* machine.Start(ctx) running the monitor under exec.CommandContext(ctx)
StartLaunch(t) ==
    /\ call[t].pc = "launch"
    /\ \E ok \in BOOLEAN :
          /\ ctxDone[t] => ~ok     \* a command of a done context does not start
          /\ IF ok
             THEN /\ insts' = [insts EXCEPT ![call[t].vm].machine = TRUE,
                                            ![call[t].vm].proc = "running"]
                  /\ call' = [call EXCEPT ![t].pc = "pid"]
                  /\ UNCHANGED <<allocated, dirs, rootfs, orphans>>
             ELSE FailCreate(t, "errStart", FALSE)
    /\ UNCHANGED <<cap, network, available, mutex, vms, vmRefs,
                   taps, ncalls, ctxDone>>

\* VM.Start: machine.PID() and the PID file; on failure machine.Shutdown(ctx)
\* asks the guest to shut down and Start returns while the monitor runs
StartPid(t) ==
    /\ call[t].pc = "pid"
    /\ \E ok \in BOOLEAN :
          IF ok
          THEN /\ call' = [call EXCEPT ![t].pc = "insert"]
               /\ UNCHANGED <<allocated, dirs, rootfs, insts, orphans>>
          ELSE FailCreate(t, "errStart", insts[call[t].vm].proc = "running")
    /\ UNCHANGED <<cap, network, available, mutex, vms, vmRefs,
                   taps, ncalls, ctxDone>>

\* GetOrCreateVM: m.vms[vmID] = vm; m.vmRefs[vmID] = 1
GocInsert(t) ==
    /\ call[t].pc = "insert"
    /\ vms' = MapPut(vms, call[t].id, call[t].vm)
    /\ vmRefs' = MapPut(vmRefs, call[t].id, 1)
    /\ call' = [call EXCEPT ![t].res = "ok", ![t].pc = "ret"]
    /\ UNCHANGED <<cap, network, available, allocated, mutex, insts, orphans,
                   dirs, rootfs, taps, ncalls, ctxDone>>

\* a ReleaseVM that does not decrement
RelCountKeep(id) == vmRefs[id]

\* the reference count ReleaseVM leaves for a present id: m.vmRefs[vmID]--
RelCount(id) == vmRefs[id] - 1

\* a test that misses the count zero
LastRefStrict(refCount) == refCount < 0

\* a test that takes the last but one reference for the last
LastRefEarly(refCount) == refCount <= 1

\* ReleaseVM's test for the last reference: refCount <= 0
LastRef(refCount) == refCount <= 0

\* ReleaseVM: lock, look the id up and decrement its reference count.  A
\* call that waits for the lock has done nothing yet, so the call begins
\* with the step that takes the lock.
RelLookup(t, id) ==
    /\ call[t].pc = "idle"
    /\ TryLock(t)
    /\ mutex' = t
    /\ IF id \notin DOMAIN vms
       THEN /\ call' = [call EXCEPT ![t] = [IdleCall EXCEPT !.op = "ReleaseVM", !.id = id,
                                             !.res = "errNotFound", !.pc = "ret"]]
            /\ UNCHANGED vmRefs
       ELSE /\ vmRefs' = [vmRefs EXCEPT ![id] = RelCount(id)]
            /\ call' = [call EXCEPT ![t] =
                          [IdleCall EXCEPT !.op = "ReleaseVM", !.id = id,
                                           !.vm = vms[id],
                                           !.refCount = RelCount(id),
                                           !.res = IF LastRef(RelCount(id)) THEN "none" ELSE "ok",
                                           !.pc = IF LastRef(RelCount(id)) THEN "stop" ELSE "ret"]]
    /\ UNCHANGED <<cap, network, available, allocated, vms, insts, orphans,
                   dirs, rootfs, taps, ncalls, ctxDone>>

\* DestroyVM: lock and look the id up
DestroyLookup(t, id) ==
    /\ call[t].pc = "idle"
    /\ TryLock(t)
    /\ mutex' = t
    /\ call' = [call EXCEPT ![t] =
                  IF id \notin DOMAIN vms
                  THEN [IdleCall EXCEPT !.op = "DestroyVM", !.id = id,
                                        !.res = "errNotFound", !.pc = "ret"]
                  ELSE [IdleCall EXCEPT !.op = "DestroyVM", !.id = id,
                                        !.vm = vms[id], !.pc = "stop"]]
    /\ UNCHANGED <<cap, network, available, allocated, vms, vmRefs, insts, orphans,
                   dirs, rootfs, taps, ncalls, ctxDone>>

\* a Stop that leaves the monitor running
StopSkip(v) == v

\* VM.Stop: with a machine, shut the monitor down, force-stop it and wait;
\* the socket, PID file and console pipe are removed, the directory is kept
Stop(v) ==
    IF v.machine THEN [v EXCEPT !.machine = FALSE, !.proc = "stopped"] ELSE v

\* ReleaseVM / DestroyVM: vm.Stop()
VMStop(t) ==
    /\ call[t].pc = "stop"
    /\ insts' = [insts EXCEPT ![call[t].vm] = Stop(insts[call[t].vm])]
    /\ call' = [call EXCEPT ![t].pc = "remove"]
    /\ UNCHANGED <<cap, network, available, allocated, mutex, vms, vmRefs, orphans,
                   dirs, rootfs, taps, ncalls, ctxDone>>

\* ReleaseVM / DestroyVM: m.ipPool.Release(vm.IP); delete from both maps
VMRemove(t) ==
    /\ call[t].pc = "remove"
    /\ allocated' = PoolRelease(allocated, insts[call[t].vm].IP)
    /\ vms' = MapDel(vms, call[t].id)
    /\ vmRefs' = MapDel(vmRefs, call[t].id)
    /\ call' = [call EXCEPT ![t].res = "ok", ![t].pc = "ret"]
    /\ UNCHANGED <<cap, network, available, mutex, insts, orphans,
                   dirs, rootfs, taps, ncalls, ctxDone>>

\* a GetVM that takes a reference as GetOrCreateVM does
GetVMCounting(t, id) ==
    /\ call[t].pc = "idle"
    /\ TryLock(t)
    /\ call' = [call EXCEPT ![t] =
                  [IdleCall EXCEPT !.op = "GetVM", !.id = id, !.pc = "done",
                                   !.res = IF id \in DOMAIN vms THEN "ok" ELSE "miss",
                                   !.vm = IF id \in DOMAIN vms THEN vms[id] ELSE NoVM]]
    /\ vmRefs' = [x \in DOMAIN vmRefs |-> IF x = id THEN vmRefs[x] + 1 ELSE vmRefs[x]]
    /\ UNCHANGED <<cap, network, available, allocated, mutex, vms, insts, orphans,
                   dirs, rootfs, taps, ncalls, ctxDone>>

\* GetVM: a read under the reader lock
GetVM(t, id) ==
    /\ call[t].pc = "idle"
    /\ TryLock(t)
    /\ call' = [call EXCEPT ![t] =
                  [IdleCall EXCEPT !.op = "GetVM", !.id = id, !.pc = "done",
                                   !.res = IF id \in DOMAIN vms THEN "ok" ELSE "miss",
                                   !.vm = IF id \in DOMAIN vms THEN vms[id] ELSE NoVM]]
    /\ UNCHANGED <<cap, network, available, allocated, mutex, vms, vmRefs, insts, orphans,
                   dirs, rootfs, taps, ncalls, ctxDone>>

(***************************************************************************)
(* Spec: callers of the Manager API.                                       *)
(***************************************************************************)
BeginGetOrCreateVM(t, id) ==
    /\ call[t].pc = "idle"
    /\ ncalls < MaxCalls
    /\ ncalls' = ncalls + 1
    /\ call' = [call EXCEPT ![t] = [IdleCall EXCEPT !.op = "GetOrCreateVM", !.id = id,
                                                    !.pc = "lock"]]
    /\ UNCHANGED <<cap, network, available, allocated, mutex, vms, vmRefs, insts, orphans,
                   dirs, rootfs, taps, ctxDone>>

\* the caller takes what the call returned and goes on
Take(t) ==
    /\ call[t].pc = "done"
    /\ call' = [call EXCEPT ![t] = IdleCall]
    /\ UNCHANGED <<cap, network, available, allocated, mutex, vms, vmRefs, insts, orphans,
                   dirs, rootfs, taps, ncalls, ctxDone>>

Next ==
    \E t \in Threads :
        \/ (\E id \in Ids : BeginGetOrCreateVM(t, id)) /\ UNCHANGED <<sess, plog, srv>>
        \/ (\E id \in Ids : RelLookup(t, id)) /\ UNCHANGED <<sess, plog, srv>>
        \/ (\E id \in Ids : DestroyLookup(t, id)) /\ UNCHANGED <<sess, plog, srv>>
        \/ (\E id \in Ids : GetVM(t, id)) /\ UNCHANGED <<sess, plog, srv>>
        \/ GocCheck(t) /\ UNCHANGED <<sess, plog, srv>>
        \/ CreateAlloc(t) /\ UNCHANGED <<sess, plog, srv>>
        \/ CreateMkdir(t) /\ UNCHANGED <<sess, plog, srv>>
        \/ CreateRootfs(t) /\ UNCHANGED <<sess, plog, srv>>
        \/ StartTap(t) /\ UNCHANGED <<sess, plog, srv>>
        \/ StartLaunch(t) /\ UNCHANGED <<sess, plog, srv>>
        \/ StartPid(t) /\ UNCHANGED <<sess, plog, srv>>
        \/ GocInsert(t) /\ UNCHANGED <<sess, plog, srv>>
        \/ VMStop(t) /\ UNCHANGED <<sess, plog, srv>>
        \/ VMRemove(t) /\ UNCHANGED <<sess, plog, srv>>
        \/ Ret(t) /\ UNCHANGED <<sess, plog, srv>>
        \/ Take(t) /\ UNCHANGED <<sess, plog, srv>>

Spec == Init /\ [][Next]_vars

(***************************************************************************)
(* SpecVal: one caller calls GetOrCreateVM and ReleaseVM, one call after   *)
(* the other, with the ids of ValIds.                                      *)
(***************************************************************************)
\* the one caller of SpecVal
Caller == CHOOSE t \in Threads : \A u \in Threads : t <= u

NextVal ==
    \/ (\E id \in ValIds : BeginGetOrCreateVM(Caller, id)) /\ UNCHANGED <<sess, plog, srv>>
    \/ (\E id \in ValIds : RelLookup(Caller, id)) /\ UNCHANGED <<sess, plog, srv>>
    \/ GocCheck(Caller) /\ UNCHANGED <<sess, plog, srv>>
    \/ CreateAlloc(Caller) /\ UNCHANGED <<sess, plog, srv>>
    \/ CreateMkdir(Caller) /\ UNCHANGED <<sess, plog, srv>>
    \/ CreateRootfs(Caller) /\ UNCHANGED <<sess, plog, srv>>
    \/ StartTap(Caller) /\ UNCHANGED <<sess, plog, srv>>
    \/ StartLaunch(Caller) /\ UNCHANGED <<sess, plog, srv>>
    \/ StartPid(Caller) /\ UNCHANGED <<sess, plog, srv>>
    \/ GocInsert(Caller) /\ UNCHANGED <<sess, plog, srv>>
    \/ VMStop(Caller) /\ UNCHANGED <<sess, plog, srv>>
    \/ VMRemove(Caller) /\ UNCHANGED <<sess, plog, srv>>
    \/ Ret(Caller) /\ UNCHANGED <<sess, plog, srv>>
    \/ Take(Caller) /\ UNCHANGED <<sess, plog, srv>>

\* SpecVal also runs over the default VM network 192.168.100.0/24
InitVal ==
    /\ InitManagerOn(ManagerNets \cup {Net(24)})
    /\ sess = [t \in Threads |-> IdleSess]
    /\ plog = <<>>
    /\ srv = IdleSrv

SpecVal == InitVal /\ [][NextVal]_vars

(***************************************************************************)
(* SpecSrv: SSH sessions.  Session s runs Server.sshHandler once; its      *)
(* Manager calls use the call slot s, its context is ctxDone[s].           *)
(***************************************************************************)
mgrState == <<cap, network, available, allocated, mutex, vms, vmRefs, insts, orphans,
              dirs, rootfs, taps, ncalls, plog, srv>>

\* sshHandler up to the select: the user, the context, GetVM (a read under
\* the reader lock), the banner, the create goroutine and the progress
\* goroutine
HandlerStart(s, id) ==
    /\ sess[s].hpc = "idle"
    /\ \A r \in 1..(s - 1) : sess[r].hpc # "idle"   \* sessions are numbered as they arrive
    /\ call[s].pc = "idle"
    /\ TryLock(s)
    /\ sess' = [sess EXCEPT ![s].hpc = "select", ![s].user = id, ![s].ppc = "run"]
    /\ call' = [call EXCEPT ![s] = [IdleCall EXCEPT !.op = "GetOrCreateVM", !.id = id,
                                                    !.pc = "lock"]]
    /\ UNCHANGED <<mgrState, ctxDone>>

\* GetOrCreateVM returns in the create goroutine (the deferred Unlock), and
\* the goroutine sends the result on vmErr or vmDone; both channels have a
\* buffer of one, so the send never waits
GoReturn(s) ==
    /\ call[s].pc = "ret"
    /\ call[s].op = "GetOrCreateVM"
    /\ mutex' = NoThread
    /\ sess' = IF call[s].res = "ok"
               THEN [sess EXCEPT ![s].vmDone = call[s].vm, ![s].acquired = TRUE]
               ELSE [sess EXCEPT ![s].vmErr = call[s].res]
    /\ call' = [call EXCEPT ![s] = IdleCall]
    /\ UNCHANGED <<cap, network, available, allocated, vms, vmRefs, insts, orphans,
                   dirs, rootfs, taps, ncalls, ctxDone, plog, srv>>

\* ReleaseVM returns in the handler
RelReturn(s) ==
    /\ call[s].op = "ReleaseVM"
    /\ Ret(s)
    /\ UNCHANGED <<sess, plog, srv>>

\* the handler's select, case testVM = <-vmDone: start the probe goroutine
SelectVMDone(s) ==
    /\ sess[s].hpc = "select"
    /\ sess[s].vmDone # NoVM
    /\ sess' = [sess EXCEPT ![s].testVM = sess[s].vmDone, ![s].vmDone = NoVM,
                            ![s].rpc = "run", ![s].hpc = "waitReady"]
    /\ UNCHANGED <<mgrState, call, ctxDone>>

\* the handler's select, case err := <-vmErr: close(vmCreateFailed)
SelectVMErr(s) ==
    /\ sess[s].hpc = "select"
    /\ sess[s].vmErr # "none"
    /\ sess' = [sess EXCEPT ![s].vmErr = "none", ![s].vmCreateFailed = TRUE,
                            ![s].hpc = "waitFailed"]
    /\ UNCHANGED <<mgrState, call, ctxDone>>

\* the handler's select, case <-sess.Context().Done()
SelectCancelled(s) ==
    /\ sess[s].hpc = "select"
    /\ sess[s].done
    /\ sess' = [sess EXCEPT ![s].hpc = "waitCancelled"]
    /\ UNCHANGED <<mgrState, call, ctxDone>>

\* <-progressDone after vmDone: register the deferred ReleaseVM, print the
\* completion line and enter proxySSHToVM
ProgressJoined(s) ==
    /\ sess[s].hpc = "waitReady"
    /\ sess[s].ppc = "done"
    /\ sess' = [sess EXCEPT ![s].hpc = "proxy", ![s].bar100 = TRUE]
    /\ UNCHANGED <<mgrState, call, ctxDone>>

\* the handler has returned and the connection is closed: what was written
\* to the session and what the proxy returned is gone with it
Closed(r) == [r EXCEPT !.hpc = "closed", !.probed = FALSE, !.bar100 = FALSE,
                       !.cleared = FALSE, !.perr = "none", !.msg = FALSE]

\* an early return with the deferred ReleaseVM(user) already registered
HandlerReturnEarlyReleases(s) ==
    /\ sess[s].hpc \in {"waitFailed", "waitCancelled"}
    /\ sess[s].ppc = "done"
    /\ sess' = [sess EXCEPT ![s] = Closed([sess[s] EXCEPT !.releases = @ + 1])]
    /\ ctxDone' = [ctxDone EXCEPT ![s] = TRUE]
    /\ UNCHANGED <<mgrState, call>>

\* <-progressDone on the error and cancel branches, then return: the
\* deferred cancel() runs
HandlerReturnEarly(s) ==
    /\ sess[s].hpc \in {"waitFailed", "waitCancelled"}
    /\ sess[s].ppc = "done"
    /\ sess' = [sess EXCEPT ![s] = Closed(sess[s])]
    /\ ctxDone' = [ctxDone EXCEPT ![s] = TRUE]
    /\ UNCHANGED <<mgrState, call>>

\* the errors proxySSHToVM returns
ProxyErrors == {"notReady", "dial", "session", "pty", "shell", "exit", "cancelled"}

\* proxySSHToVM: waitForVMSSH(sess.Context(), vmAddr) returns nil (the
\* guest answered), the timeout error or the context's error; with a
\* context that is done on entry only ctx.Done() is ready
ProxyProbe(s) ==
    /\ sess[s].hpc = "proxy"
    /\ \E out \in {"ready", "timeout", "ctx"} :
          /\ (out = "ready") => (~sess[s].done /\ insts[sess[s].testVM].proc = "running")
          /\ (out = "ctx") => sess[s].done
          /\ sess' = IF out = "ready"
                     THEN [sess EXCEPT ![s].hpc = "dial"]
                     ELSE [sess EXCEPT ![s].hpc = "return",
                                       ![s].perr = IF out = "ctx" THEN "cancelled"
                                                   ELSE "notReady"]
    /\ UNCHANGED <<mgrState, call, ctxDone>>

\* proxySSHToVM: cryptoSSH.Dial("tcp", vmAddr, config), 10 s at most
ProxyDial(s) ==
    /\ sess[s].hpc = "dial"
    /\ \E ok \in BOOLEAN :
          /\ ok => insts[sess[s].testVM].proc = "running"
          /\ sess' = IF ok THEN [sess EXCEPT ![s].hpc = "inner"]
                     ELSE [sess EXCEPT ![s].hpc = "return", ![s].perr = "dial"]
    /\ UNCHANGED <<mgrState, call, ctxDone>>

\* proxySSHToVM: NewSession, the pipes and environment, RequestPty, Shell
ProxyInner(s) ==
    /\ sess[s].hpc = "inner"
    /\ \E out \in {"ok", "session", "pty", "shell"} :
          sess' = IF out = "ok" THEN [sess EXCEPT ![s].hpc = "wait"]
                  ELSE [sess EXCEPT ![s].hpc = "return", ![s].perr = out]
    /\ UNCHANGED <<mgrState, call, ctxDone>>

\* proxySSHToVM's select: vmSession.Wait() returned nil ("ended") or an
\* error ("exit"), or the outer session's context is done
ProxyWait(s) ==
    /\ sess[s].hpc = "wait"
    /\ \E out \in {"ended", "exit", "cancelled"} :
          /\ (out = "cancelled") => sess[s].done
          /\ sess' = [sess EXCEPT ![s].hpc = "return", ![s].perr = out]
    /\ UNCHANGED <<mgrState, call, ctxDone>>

\* a handler that takes the cancellation of the outer session for a normal
\* end of the proxy and prints nothing
ProxyReturnSilentOnCancel(s) ==
    /\ sess[s].hpc = "return"
    /\ sess' = [sess EXCEPT ![s].hpc = "release",
                            ![s].msg = sess[s].perr \in ProxyErrors \ {"cancelled"},
                            ![s].perr = "none"]
    /\ UNCHANGED <<mgrState, call, ctxDone>>

\* proxySSHToVM has returned: the handler prints an error it returned and
\* is done with it
ProxyReturn(s) ==
    /\ sess[s].hpc = "return"
    /\ sess' = [sess EXCEPT ![s].hpc = "release",
                            ![s].msg = sess[s].perr \in ProxyErrors,
                            ![s].perr = "none"]
    /\ UNCHANGED <<mgrState, call, ctxDone>>

\* the deferred s.vmManager.ReleaseVM(testVM.ID)
HandlerRelease(s) ==
    /\ sess[s].hpc = "release"
    /\ RelLookup(s, insts[sess[s].testVM].ID)
    /\ sess' = [sess EXCEPT ![s].hpc = "releasing", ![s].releases = sess[s].releases + 1]
    /\ UNCHANGED <<plog, srv>>

\* ReleaseVM has returned; the deferred cancel() runs and the handler returns
HandlerReturn(s) ==
    /\ sess[s].hpc = "releasing"
    /\ call[s].pc = "idle"
    /\ sess' = [sess EXCEPT ![s] = Closed(sess[s])]
    /\ ctxDone' = [ctxDone EXCEPT ![s] = TRUE]
    /\ UNCHANGED <<mgrState, call>>

\* a renderer that clears its row on the VM-create-failed signal only
ProgressClearsOnFailureOnly(s, why) == why = "failed"

\* the renderer clears its row when it returns: in the vmCreateFailed case,
\* and in the deferred function when ctx or the session context is done
ProgressClears(s, why) == why = "failed" \/ ctxDone[s] \/ sess[s].done

\* showProgressBarWithHealthCheck returns: on ctx or the session context,
\* on vmCreateFailed, or on vmReady (the 100% bar)
ProgressReturn(s) ==
    /\ sess[s].ppc = "run"
    /\ \E why \in {"ctx", "failed", "ready"} :
          /\ (why = "ctx") => (ctxDone[s] \/ sess[s].done)
          /\ (why = "failed") => sess[s].vmCreateFailed
          /\ (why = "ready") => sess[s].vmReady
          /\ sess' = [sess EXCEPT ![s].ppc = "done",
                                  ![s].vmReady = IF why = "ready" THEN FALSE ELSE @,
                                  ![s].bar100 = IF why = "ready" THEN TRUE ELSE @,
                                  ![s].cleared = ProgressClears(s, why)]
    /\ UNCHANGED <<mgrState, call, ctxDone>>

\* the probe goroutine: waitForVMSSH(ctx, vmAddr) returns nil (the guest
\* answered, so its monitor runs), the timeout error or ctx.Err(); on nil
\* the address is sent on vmReady
ProbeReturn(s) ==
    /\ sess[s].rpc = "run"
    /\ \E out \in {"ready", "timeout", "ctx"} :
          /\ (out = "ready") => insts[sess[s].testVM].proc = "running"
          /\ (out = "ctx") => ctxDone[s]
          /\ sess' = [sess EXCEPT ![s].rpc = IF out = "timeout" THEN "timedout" ELSE "done",
                                  ![s].vmReady = IF out = "ready" THEN TRUE ELSE @,
                                  ![s].probed = IF out = "ready" THEN TRUE ELSE @]
    /\ UNCHANGED <<mgrState, call, ctxDone>>

\* the client ends or interrupts the outer session: its context and the
\* derived context ctx are done
OuterCancel(s) ==
    /\ sess[s].hpc \notin {"idle", "closed"}
    /\ ~sess[s].done
    /\ sess' = [sess EXCEPT ![s].done = TRUE]
    /\ ctxDone' = [ctxDone EXCEPT ![s] = TRUE]
    /\ UNCHANGED <<mgrState, call>>

\* os/exec kills a command started with exec.CommandContext(ctx) once ctx
\* is done
CtxKilled(is, t) ==
    [u \in DOMAIN is |->
        IF is[u].ctx = t /\ is[u].proc = "running"
        THEN [is[u] EXCEPT !.proc = "killed"] ELSE is[u]]

CtxKill(t) ==
    /\ ctxDone[t]
    /\ \/ \E u \in DOMAIN insts : insts[u].ctx = t /\ insts[u].proc = "running"
       \/ \E o \in orphans : o[2] = t
    /\ insts' = CtxKilled(insts, t)
    /\ orphans' = {o \in orphans : o[2] # t}
    /\ UNCHANGED <<cap, network, available, allocated, mutex, vms, vmRefs,
                   dirs, rootfs, taps, call, ncalls, ctxDone, sess, plog, srv>>

NextSrv ==
    \E s \in Threads :
        \/ \E id \in Ids : HandlerStart(s, id)
        \/ GocCheck(s) /\ UNCHANGED <<sess, plog, srv>>
        \/ CreateAlloc(s) /\ UNCHANGED <<sess, plog, srv>>
        \/ CreateMkdir(s) /\ UNCHANGED <<sess, plog, srv>>
        \/ CreateRootfs(s) /\ UNCHANGED <<sess, plog, srv>>
        \/ StartTap(s) /\ UNCHANGED <<sess, plog, srv>>
        \/ StartLaunch(s) /\ UNCHANGED <<sess, plog, srv>>
        \/ StartPid(s) /\ UNCHANGED <<sess, plog, srv>>
        \/ GocInsert(s) /\ UNCHANGED <<sess, plog, srv>>
        \/ VMStop(s) /\ UNCHANGED <<sess, plog, srv>>
        \/ VMRemove(s) /\ UNCHANGED <<sess, plog, srv>>
        \/ GoReturn(s)
        \/ RelReturn(s)
        \/ SelectVMDone(s)
        \/ SelectVMErr(s)
        \/ SelectCancelled(s)
        \/ ProgressJoined(s)
        \/ HandlerReturnEarly(s)
        \/ ProxyProbe(s)
        \/ ProxyDial(s)
        \/ ProxyInner(s)
        \/ ProxyWait(s)
        \/ ProxyReturn(s)
        \/ HandlerRelease(s)
        \/ HandlerReturn(s)
        \/ ProgressReturn(s)
        \/ ProbeReturn(s)
        \/ OuterCancel(s)
        \/ CtxKill(s)

SpecSrv == Init /\ [][NextSrv]_vars

(***************************************************************************)
(* SpecPool: an IPPool on its own, as the pool tests use it: NewIPPool     *)
(* over a parsed CIDR, then Allocate and Release in any order.             *)
(***************************************************************************)
\* a network whose address list carries from the last byte into the third
CarryNet == [IP |-> <<10, 0, 254, 0>>, Mask |-> CIDRMask(23)]
\* the last /30 of the address space: inc wraps around to 0.0.0.0
TopNet == [IP |-> <<255, 255, 255, 252>>, Mask |-> CIDRMask(30)]
\* an address outside every network of the model
OutsideIP == <<172, 16, 0, 2>>

PoolNets ==
    {Net(32 - hb) : hb \in MinHostBits..MaxHostBits}
        \cup {Net(24), Net(28), Net(31), Net(32), CarryNet, TopNet}

\* the addresses Release is called with: allocated ones, the first and the
\* last of the list, the network address, the gateway, an outside address
RelArgs ==
    allocated \cup {available[i] : i \in {1, Len(available)} \cap DOMAIN available}
              \cup {MaskIP(network.IP, network.Mask), Gateway(network), OutsideIP}

\* the record of a pool call, keeping the last LogLen calls
Log(rec) ==
    LET l == Append(plog, rec)
    IN  IF Len(l) > LogLen THEN Tail(l) ELSE l

\* NewIPPool returned an error and no pool
PoolNil == Len(plog) > 0 /\ plog[1].op = "NewIPPool" /\ ~plog[1].ok

InitPool ==
    /\ cap = 0
    /\ \E nw \in PoolNets :
          /\ network = nw
          /\ IF NewIPPoolOk(nw)
             THEN /\ available = NewIPPoolList(nw)
                  /\ plog = <<>>
             ELSE /\ available = <<>>
                  /\ plog = <<[op |-> "NewIPPool", ip |-> NoIP, ok |-> FALSE,
                               held |-> FALSE]>>
    /\ allocated = {}
    /\ mutex = NoThread
    /\ vms = <<>>
    /\ vmRefs = <<>>
    /\ insts = <<>>
    /\ orphans = {}
    /\ dirs = {}
    /\ rootfs = {}
    /\ taps = {}
    /\ call = [t \in Threads |-> IdleCall]
    /\ ncalls = 0
    /\ ctxDone = [t \in Threads |-> FALSE]
    /\ sess = [t \in Threads |-> IdleSess]
    /\ srv = IdleSrv

poolFrame == <<cap, network, available, mutex, vms, vmRefs, insts, orphans,
               dirs, rootfs, taps, call, ctxDone, sess, srv>>

\* IPPool.Allocate
Allocate ==
    /\ ~PoolNil
    /\ ncalls < MaxPoolOps
    /\ ncalls' = ncalls + 1
    /\ LET i == AllocIndex(available, allocated)
       IN  IF i = 0
           THEN /\ plog' = Log([op |-> "Allocate", ip |-> NoIP, ok |-> FALSE,
                                 held |-> FALSE])
                /\ UNCHANGED allocated
           ELSE /\ allocated' = allocated \cup {available[i]}
                /\ plog' = Log([op |-> "Allocate", ip |-> available[i], ok |-> TRUE,
                                 held |-> FALSE])
    /\ UNCHANGED poolFrame

\* IPPool.Release(ip)
Release(ip) ==
    /\ ~PoolNil
    /\ ncalls < MaxPoolOps
    /\ ncalls' = ncalls + 1
    /\ allocated' = PoolRelease(allocated, ip)
    /\ plog' = Log([op |-> "Release", ip |-> ip, ok |-> TRUE,
                     held |-> ip \in allocated])
    /\ UNCHANGED poolFrame

NextPool ==
    \/ Allocate
    \/ \E ip \in RelArgs : Release(ip)

SpecPool == InitPool /\ [][NextPool]_vars

(***************************************************************************)
(* SpecRun: the life of the server process (main, NewServer, Server.Run)   *)
(* on a host whose packet-filter rules and stats file outlive the process. *)
(***************************************************************************)
\* a packet-filter rule as ipt.List shows it: its specification and comment
TaggedRule(spec) == [spec |-> spec, comment |-> "ssh-hypervisor"]
OtherRule == [spec |-> "docker", comment |-> ""]

\* strings.Contains(rule, "ssh-hypervisor")
HasTag(rule) == rule.comment = "ssh-hypervisor"

\* cleanupRulesWithComment: delete every rule of the chain that has the tag
cleanupRulesWithComment(chain) == SelectSeq(chain, LAMBDA r : ~HasTag(r))

\* cleanupIptablesRules: filter/FORWARD, then nat/POSTROUTING
cleanupIptablesRules(rules) ==
    [FORWARD |-> cleanupRulesWithComment(rules.FORWARD),
     POSTROUTING |-> cleanupRulesWithComment(rules.POSTROUTING)]

\* setupIptablesRules: append the two FORWARD accepts and the MASQUERADE
setupIptablesRules(rules) ==
    [FORWARD |-> rules.FORWARD \o <<TaggedRule("fwdOut"), TaggedRule("fwdIn")>>,
     POSTROUTING |-> rules.POSTROUTING \o <<TaggedRule("masq")>>]

\* the rules of the host when the first process starts: none of the program's,
\* or those an earlier process installed once or twice and never removed
HostRules ==
    LET base == [FORWARD |-> <<OtherRule>>, POSTROUTING |-> <<>>]
    IN  {base, setupIptablesRules(base), setupIptablesRules(setupIptablesRules(base))}

Users == {Alice, Bob}

\* Config.Validate accepts a VM CIDR of prefix length 28 at most
MaxPrefix == 28
ValidateCIDR(nw) == MaskOnes(nw.Mask) <= MaxPrefix

\* the prefix length setupNetworkBridge writes after the gateway address
BridgePrefix == 24

\* gatewayWithMask := fmt.Sprintf("%s/24", gateway)
gatewayWithMask(nw) == [ip |-> Gateway(nw), ones |-> BridgePrefix]

\* setupNetworkBridge on host h, where out is the first command that fails
\* ("ok": none does): the host it leaves and whether it returned nil
setupNetworkBridge(h, nw, out) ==
    IF h.exists THEN [host |-> h, ok |-> TRUE, added |-> {}]
    ELSE IF out = "failCreate" THEN [host |-> h, ok |-> FALSE, added |-> {}]
    ELSE IF out = "failAddr"
    THEN [host |-> [h EXCEPT !.exists = TRUE], ok |-> FALSE, added |-> {}]
    ELSE IF out = "failUp"
    THEN [host |-> [h EXCEPT !.exists = TRUE, !.addr = {gatewayWithMask(nw)}],
          ok |-> FALSE, added |-> {gatewayWithMask(nw)}]
    ELSE IF out = "failForward"
    THEN [host |-> [h EXCEPT !.exists = TRUE, !.addr = {gatewayWithMask(nw)},
                             !.up = TRUE],
          ok |-> FALSE, added |-> {gatewayWithMask(nw)}]
    ELSE [host |-> [exists |-> TRUE, addr |-> {gatewayWithMask(nw)}, up |-> TRUE,
                    fwd |-> TRUE],
          ok |-> TRUE, added |-> {gatewayWithMask(nw)}]

\* what a command of setupNetworkBridge or a later step of the startup does
Outcomes == {"ok", "failCreate", "failAddr", "failUp", "failForward", "failLate"}

\* the bridge of the host when the first process starts: absent, or left by
\* an earlier process with or without its address, up or down, and the
\* forward bit set or cleared since
HostBridges(nw) ==
    {NoBridge, [NoBridge EXCEPT !.fwd = TRUE]}
        \cup {[exists |-> TRUE, addr |-> a, up |-> u, fwd |-> f] :
                 a \in {{}, {gatewayWithMask(nw)}}, u \in BOOLEAN, f \in BOOLEAN}

\* the VM CIDRs of SpecRun: two that Config.Validate accepts, one it rejects
RunNets == {Net(24), Net(MaxPrefix), Net(MaxPrefix + 1)}

InitRun ==
    /\ InitManagerOn(RunNets)
    /\ sess = [t \in Threads |-> IdleSess]
    /\ plog = <<>>
    /\ \E r \in HostRules, f \in SUBSET Users, h \in HostBridges(network) :
          srv = [IdleSrv EXCEPT !.rules = r, !.file = f, !.host = h]

runFrame == <<cap, network, available, allocated, mutex, vms, vmRefs, insts, orphans,
              dirs, rootfs, taps, call, ncalls, ctxDone, sess, plog>>

\* main: Config.Validate, NewServer (NewManager with setupNetworkBridge,
\* UserStats.Load), Server.Run up to the select; a failure ends the process
Startup ==
    /\ srv.pc \in {"off", "exited"}
    /\ srv.runs < MaxRuns
    /\ \E out \in Outcomes :
          LET valid == ValidateCIDR(network)
              b == setupNetworkBridge(srv.host, network, out)
              fresh == [srv EXCEPT !.seen = {}, !.open = 0, !.saved = FALSE,
                                   !.runs = srv.runs + 1, !.mgr = FALSE,
                                   !.assigned = {}]
          IN  srv' = IF ~valid
                     THEN [fresh EXCEPT !.pc = "exited", !.users = {}, !.exit = "fatal"]
                     ELSE IF b.ok /\ out = "ok"
                     THEN [fresh EXCEPT !.pc = "running", !.users = srv.file,
                                        !.exit = "none", !.host = b.host,
                                        !.mgr = TRUE, !.assigned = b.added]
                     ELSE [fresh EXCEPT !.pc = "exited", !.users = {},
                                        !.exit = "fatal", !.host = b.host,
                                        !.mgr = b.ok, !.assigned = b.added]
    /\ UNCHANGED runFrame

\* sshHandler: a session of user u begins, s.userStats.RecordConnection(user)
Connect(u) ==
    /\ srv.pc = "running"
    /\ srv.open < MaxOpen
    /\ srv' = [srv EXCEPT !.users = srv.users \cup {u}, !.seen = srv.seen \cup {u},
                          !.open = srv.open + 1]
    /\ UNCHANGED runFrame

\* a session ends
SessionEnd ==
    /\ srv.pc \in {"running", "shutdown"}
    /\ srv.open > 0
    /\ srv' = [srv EXCEPT !.open = srv.open - 1]
    /\ UNCHANGED runFrame

\* Run, case <-ctx.Done(): SIGINT or SIGTERM; server.Shutdown(shutdownCtx)
\* stops the listener and waits for the sessions, 30 s at most
Signal ==
    /\ srv.pc = "running"
    /\ srv' = [srv EXCEPT !.pc = "shutdown"]
    /\ UNCHANGED runFrame

\* server.Shutdown returned nil: userStats.Save, Run returns nil, main returns
ShutdownDrained ==
    /\ srv.pc = "shutdown"
    /\ srv.open = 0
    /\ srv' = [srv EXCEPT !.pc = "exited", !.file = srv.users, !.saved = TRUE,
                          !.exit = "drained"]
    /\ UNCHANGED runFrame

\* server.Shutdown returned the deadline error: Run returns it at once and
\* main ends the process with log.Fatalf
ShutdownTimeout ==
    /\ srv.pc = "shutdown"
    /\ srv.open > 0
    /\ srv' = [srv EXCEPT !.pc = "exited", !.open = 0, !.exit = "timeout"]
    /\ UNCHANGED runFrame

\* Run, case err := <-done: ListenAndServe returned; userStats.Save, return
ListenerError ==
    /\ srv.pc = "running"
    /\ srv' = [srv EXCEPT !.pc = "exited", !.file = srv.users, !.saved = TRUE,
                          !.open = 0, !.exit = "listener"]
    /\ UNCHANGED runFrame

NextRun ==
    \/ Startup
    \/ \E u \in Users : Connect(u)
    \/ SessionEnd
    \/ Signal
    \/ ShutdownDrained
    \/ ShutdownTimeout
    \/ ListenerError

SpecRun == InitRun /\ [][NextRun]_vars

(***************************************************************************)
(* Properties of the Manager (Spec) and of the sessions (SpecSrv).         *)
(***************************************************************************)
\* the positions of a GetOrCreateVM call inside createVMInternal and up to
\* the insertion into the maps
CreatePcs == {"alloc", "mkdir", "rootfs", "tap", "launch", "pid", "insert"}

\* the callers whose GetOrCreateVM is creating a VM for id
Creating(id) ==
    {t \in Threads : /\ call[t].op = "GetOrCreateVM"
                     /\ call[t].id = id
                     /\ call[t].pc \in CreatePcs}

\* the VM Instances of id that exist: built or being built, and not stopped
Existing(id) ==
    {u \in DOMAIN insts : insts[u].ID = id /\ insts[u].proc # "stopped"}

\* C1: at every instant at most one VM Instance exists per id and at most
\* one create per id is in progress, never for an id that is in the map;
\* a GetOrCreateVM that succeeds returns the Instance the map holds for the
\* id, and a caller that holds an Instance which has not been stopped holds
\* the one the map holds, so racing callers all receive the same Instance.
C1_OneInstancePerID ==
    /\ \A id \in Ids :
          /\ Cardinality(Existing(id)) <= 1
          /\ Cardinality(Creating(id)) <= 1
          /\ (id \in DOMAIN vms) => Creating(id) = {}
    /\ \A t \in Threads :
          /\ (call[t].op = "GetOrCreateVM" /\ call[t].pc = "ret" /\ call[t].res = "ok")
                => (call[t].id \in DOMAIN vms /\ vms[call[t].id] = call[t].vm)
          /\ (call[t].pc = "done" /\ call[t].res = "ok"
                /\ insts[call[t].vm].proc # "stopped")
                => (/\ insts[call[t].vm].ID \in DOMAIN vms
                    /\ vms[insts[call[t].vm].ID] = call[t].vm)

\* two callers hold the Instance of one id, created once, with two references
C1_Witness ==
    \E t1, t2 \in Threads :
        /\ t1 # t2
        /\ call[t1].pc = "done" /\ call[t1].op = "none" /\ call[t1].res = "ok"
        /\ call[t2].pc = "done" /\ call[t2].op = "none" /\ call[t2].res = "ok"
        /\ call[t1].vm = call[t2].vm
        /\ vmRefs[insts[call[t1].vm].ID] = 2
        /\ Cardinality(Existing(insts[call[t1].vm].ID)) = 1

\* C2: whenever the manager lock is not held, the VM map and the
\* reference-count map have the same key set and every count is >= 1.
C2_MapsAgree ==
    (mutex = NoThread)
        => /\ DOMAIN vms = DOMAIN vmRefs
           /\ \A id \in DOMAIN vmRefs : vmRefs[id] >= 1

\* the lock is free after creates and a removal, with a VM in the map
C2_Witness ==
    /\ mutex = NoThread
    /\ DOMAIN vms # {}
    /\ Len(insts) > Cardinality(DOMAIN vms)
    /\ \E t \in Threads : call[t].pc = "done" /\ call[t].res # "ok"

\* C3: when MaxConcurrentVMs > 0 the VM map never has more entries than it.
C3_Capacity ==
    (cap > 0) => Cardinality(DOMAIN vms) <= cap

\* the map is full and a GetOrCreateVM for an absent, valid id waits for the lock
C3_Witness ==
    /\ cap > 0
    /\ Cardinality(DOMAIN vms) = cap
    /\ \E t \in Threads :
          /\ call[t].op = "GetOrCreateVM"
          /\ call[t].pc = "lock"
          /\ call[t].id \notin DOMAIN vms
          /\ ValidateID(call[t].id) = "ok"

\* the steps of a ReleaseVM call of t for a present id
C4_Step(t) ==
    /\ (call[t].pc = "idle" /\ call'[t].op = "ReleaseVM" /\ call'[t].id \in DOMAIN vms)
          => /\ DOMAIN vmRefs' = DOMAIN vmRefs
             /\ \A id \in DOMAIN vmRefs :
                   vmRefs'[id] = IF id = call'[t].id THEN vmRefs[id] - 1 ELSE vmRefs[id]
             /\ vms' = vms /\ allocated' = allocated /\ insts' = insts
             /\ (vmRefs'[call'[t].id] >= 1)
                   => (call'[t].pc = "ret" /\ call'[t].res = "ok")
             /\ (vmRefs'[call'[t].id] = 0) => call'[t].pc = "stop"
    /\ (call[t].op = "ReleaseVM" /\ call[t].pc = "remove" /\ call'[t].pc = "ret")
          => /\ call[t].id \notin DOMAIN vms'
             /\ call[t].id \notin DOMAIN vmRefs'
             /\ insts'[call[t].vm].IP \notin allocated'
             /\ insts'[call[t].vm].proc = "stopped"
             /\ call'[t].res = "ok"
    /\ (call[t].op = "ReleaseVM" /\ call[t].pc = "ret" /\ call'[t] # call[t])
          => (vms' = vms /\ vmRefs' = vmRefs /\ allocated' = allocated /\ insts' = insts)

\* C4: ReleaseVM of a present id decrements its reference count by exactly
\* one; while the result is >= 1 the call returns with the Instance, the
\* map entries and the IP left in place and Stop not called; when the
\* result is zero Stop is called, the IP is released and both map entries
\* are removed before the call returns.
C4_Release == [][\A t \in Threads : C4_Step(t)]_vars

\* a ReleaseVM that took the last reference is about to return
C4_Witness ==
    \E t \in Threads :
        /\ call[t].op = "ReleaseVM"
        /\ call[t].pc = "ret"
        /\ call[t].res = "ok"
        /\ call[t].refCount = 0
        /\ insts[call[t].vm].proc = "stopped"
        /\ call[t].id \notin DOMAIN vms

\* C5: a session handler calls ReleaseVM at most once, and only when its
\* own GetOrCreateVM returned an Instance that the handler received; on the
\* branch taken for a capacity error or a create error it calls it never.
C5_ReleaseOnce ==
    \A s \in Threads :
        /\ sess[s].releases <= 1
        /\ (sess[s].releases = 1) => (sess[s].acquired /\ sess[s].testVM # NoVM)
        /\ (sess[s].vmCreateFailed \/ sess[s].vmErr # "none") => sess[s].releases = 0

\* one session ended after its release, another after a failed GetOrCreateVM
C5_Witness ==
    \E s1, s2 \in Threads :
        /\ sess[s1].hpc = "closed" /\ sess[s1].releases = 1
        /\ sess[s2].hpc = "closed" /\ sess[s2].vmCreateFailed /\ sess[s2].releases = 0

\* C6: every reference a session acquires is released: once every session
\* bound to an id has ended and its GetOrCreateVM has returned, the id is
\* absent from the map and no address is allocated to it.
C6_AllReleased ==
    \A id \in Ids :
        (/\ \E s \in Threads : sess[s].user = id
         /\ \A s \in Threads :
               (sess[s].user = id) => (sess[s].hpc = "closed" /\ call[s].pc = "idle"))
            => /\ id \notin DOMAIN vms
               /\ id \notin DOMAIN vmRefs
               /\ \A u \in DOMAIN insts : (insts[u].ID = id) => insts[u].IP \notin allocated

\* the sessions that hold the VM Instance u
Holders(u) ==
    {s \in Threads : sess[s].testVM = u /\ sess[s].hpc \in {"waitReady", "proxy", "dial", "inner", "wait", "return", "release"}}

\* C7: when a session shares the VM of an id with the session that created
\* it and the creating session has closed, the VM stays in the map with its
\* reference count and its monitor keeps running.
C7_MonitorSurvivesCreator ==
    \A id \in DOMAIN vms :
        (/\ mutex = NoThread
         /\ sess[insts[vms[id]].ctx].hpc = "closed"
         /\ sess[insts[vms[id]].ctx].releases = 1
         /\ Holders(vms[id]) # {})
            => /\ vmRefs[id] >= 1
               /\ insts[vms[id]].proc = "running"

\* the step of a GetOrCreateVM call of t that takes the lock
C8_Step(t) ==
    (/\ call[t].op = "GetOrCreateVM" /\ call[t].pc = "lock" /\ call'[t].pc # "lock"
     /\ cap > 0
     /\ Cardinality(DOMAIN vms) >= cap
     /\ call[t].id \notin DOMAIN vms)
        => /\ call'[t].pc = "ret"
           /\ call'[t].res = "errCapacity"
           /\ call'[t].vm = NoVM
           /\ UNCHANGED <<allocated, dirs, rootfs, taps, insts, orphans, vms, vmRefs>>

\* C8: with MaxConcurrentVMs > 0 and the map full, GetOrCreateVM for an id
\* not in the map fails with the capacity error and changes nothing: no IP,
\* no directory, no TAP device, no map entry.
C8_CapacityError == [][\A t \in Threads : C8_Step(t)]_vars

\* a GetOrCreateVM is about to return the capacity error
C8_Witness ==
    \E t \in Threads :
        /\ call[t].op = "GetOrCreateVM"
        /\ call[t].pc = "ret"
        /\ call[t].res = "errCapacity"
        /\ cap > 0
        /\ Cardinality(DOMAIN vms) = cap

\* the step of a GetOrCreateVM call of t for a present id that takes the lock
C9_Step(t) ==
    (/\ call[t].op = "GetOrCreateVM" /\ call[t].pc = "lock" /\ call'[t].pc # "lock"
     /\ call[t].id \in DOMAIN vms)
        => /\ call'[t].pc = "ret"
           /\ call'[t].res = "ok"
           /\ call'[t].vm = vms[call[t].id]
           /\ vmRefs' = [vmRefs EXCEPT ![call[t].id] = vmRefs[call[t].id] + 1]
           /\ UNCHANGED <<allocated, dirs, rootfs, taps, insts, orphans, vms>>

\* C9: GetOrCreateVM for an id in the map always succeeds, also with the
\* map at the cap or the IP pool exhausted: it returns the existing
\* Instance, increments the count by one, allocates and creates nothing.
C9_ExistingAlwaysSucceeds == [][\A t \in Threads : C9_Step(t)]_vars

\* a GetOrCreateVM returns the existing VM with the map full and no free address
C9_Witness ==
    \E t \in Threads :
        /\ call[t].op = "GetOrCreateVM"
        /\ call[t].pc = "ret"
        /\ call[t].res = "ok"
        /\ vmRefs[call[t].id] >= 2
        /\ cap > 0 /\ Cardinality(DOMAIN vms) >= cap
        /\ Available = 0

\* C10: when a create fails after the IP was allocated, on return the IP is
\* free, the scratch directory of the id does not exist, and the id has no
\* map entry and no reference count.
C10_Rollback ==
    \A t \in Threads :
        (/\ call[t].op = "GetOrCreateVM"
         /\ call[t].pc = "ret"
         /\ call[t].res \in {"errMkdir", "errRootfs", "errStart"})
            => /\ call[t].ip # NoIP
               /\ call[t].ip \notin allocated
               /\ call[t].id \notin dirs
               /\ call[t].id \notin rootfs
               /\ call[t].id \notin DOMAIN vms
               /\ call[t].id \notin DOMAIN vmRefs

\* a create failed in VM.Start for an id that had a directory from an
\* earlier Instance
C10_Witness ==
    \E t \in Threads :
        /\ call[t].op = "GetOrCreateVM"
        /\ call[t].pc = "ret"
        /\ call[t].res = "errStart"
        /\ call[t].ip # NoIP
        /\ \E u \in DOMAIN insts : insts[u].ID = call[t].id /\ insts[u].proc = "stopped"

\* C11: when a create fails after its TAP device was created or after its
\* monitor was launched, on return of the failed GetOrCreateVM the TAP
\* device is gone and no monitor of the id is left running.
C11_RollbackTapMonitor ==
    \A t \in Threads :
        (/\ call[t].op = "GetOrCreateVM"
         /\ call[t].pc = "ret"
         /\ call[t].res = "errStart"
         /\ call[t].tap)
            => /\ VmNetID(call[t].ip) \notin taps
               /\ \A o \in orphans : o[1] # call[t].id

\* the steps session s takes by itself: its handler, its goroutines and
\* its Manager calls, not the client's cancellation
SessionOwnStep(s) ==
    \/ GocCheck(s) /\ UNCHANGED <<sess, plog, srv>>
    \/ CreateAlloc(s) /\ UNCHANGED <<sess, plog, srv>>
    \/ CreateMkdir(s) /\ UNCHANGED <<sess, plog, srv>>
    \/ CreateRootfs(s) /\ UNCHANGED <<sess, plog, srv>>
    \/ StartTap(s) /\ UNCHANGED <<sess, plog, srv>>
    \/ StartLaunch(s) /\ UNCHANGED <<sess, plog, srv>>
    \/ StartPid(s) /\ UNCHANGED <<sess, plog, srv>>
    \/ GocInsert(s) /\ UNCHANGED <<sess, plog, srv>>
    \/ VMStop(s) /\ UNCHANGED <<sess, plog, srv>>
    \/ VMRemove(s) /\ UNCHANGED <<sess, plog, srv>>
    \/ GoReturn(s) \/ RelReturn(s)
    \/ SelectVMDone(s) \/ SelectVMErr(s) \/ SelectCancelled(s)
    \/ ProgressJoined(s) \/ HandlerReturnEarly(s)
    \/ ProxyProbe(s) \/ ProxyDial(s) \/ ProxyInner(s) \/ ProxyWait(s) \/ ProxyReturn(s)
    \/ HandlerRelease(s) \/ HandlerReturn(s)
    \/ ProgressReturn(s) \/ ProbeReturn(s)

\* C12: when the readiness probe of a session has timed out and the client
\* has not cancelled, the session goes on by itself until the handler has
\* returned: it is never left with no step of its own to take.
C12_TimeoutEndsSession ==
    \A s \in Threads :
        (sess[s].rpc = "timedout" /\ ~sess[s].done /\ sess[s].hpc # "closed")
            => ENABLED SessionOwnStep(s)

\* C13: the session handler does not return while the GetOrCreateVM call
\* of its session is still in progress: a handler that has returned has no
\* Manager call waiting for the lock, creating or about to return.
C13_NoReturnDuringCreate ==
    \A s \in Threads :
        (sess[s].hpc = "closed") => call[s].pc = "idle"

\* an id that is non-empty, at most 48 characters long and made of the
\* characters of the set only
IdWellFormed(id) ==
    /\ Len(id) >= 1
    /\ Len(id) <= MaxIDLen
    /\ \A i \in 1..Len(id) : id[i] \in Charset

\* the step of createVMInternal that validates the id of t's call
C14_Step(t) ==
    (call[t].op = "GetOrCreateVM" /\ call[t].pc = "alloc" /\ call'[t].pc # "alloc")
        => IF IdWellFormed(call[t].id)
           THEN \/ call'[t].pc = "mkdir" /\ call'[t].ip \in allocated'
                \/ call'[t].pc = "ret" /\ call'[t].res = "errAlloc"
           ELSE /\ call'[t].pc = "ret"
                /\ call'[t].res = "errInvalid"
                /\ UNCHANGED <<allocated, dirs, rootfs, taps, insts, orphans, vms, vmRefs>>

\* C14: a GetOrCreateVM that reaches createVMInternal goes on to the
\* creation (the IP allocation) if and only if the id is non-empty, at most
\* 48 characters long and made of [A-Za-z0-9_-] only; for every other id it
\* fails with nothing changed, and no directory and no map entry ever
\* carries such an id.
C14_Validation ==
    [][/\ \A t \in Threads : C14_Step(t)
       /\ \A id \in DOMAIN vms' \cup DOMAIN vmRefs' \cup dirs' : IdWellFormed(id)]_vars

\* an id of 49 characters is refused while the VM of an id of 48 characters exists
C14_Witness ==
    \E t \in Threads :
        /\ call[t].op = "GetOrCreateVM"
        /\ call[t].pc = "ret"
        /\ call[t].res = "errInvalid"
        /\ Len(call[t].id) = MaxIDLen + 1
        /\ \E id \in DOMAIN vms : Len(id) = MaxIDLen


(***************************************************************************)
(* Properties of the IPPool (SpecPool).                                    *)
(***************************************************************************)
\* the host addresses of the pool's network: all but network and broadcast
Hosts == Pow2(32 - MaskOnes(network.Mask)) - 2

\* the addresses of the pool's list
Listed == {available[i] : i \in 1..Len(available)}

\* C15: a pool newly built over a network of prefix length p <= 30 reports
\* Available() = 2^(32-p) - 2 (254 for a /24, 14 for a /28, 2 for a /30)
C15_NewPoolSize ==
    ncalls = 0 => Available = Pow2(32 - MaskOnes(network.Mask)) - 2

C17_Conservation ==
    /\ Available + Cardinality({a \in Listed : a \in allocated}) = Len(available)
    /\ Available >= 0

\* an exhausted pool after a failed Allocate and a Release of an outside address
C17_Witness ==
    /\ Len(plog) >= 2
    /\ plog[Len(plog) - 1].op = "Allocate" /\ ~plog[Len(plog) - 1].ok
    /\ plog[Len(plog)].op = "Release" /\ plog[Len(plog)].ip \notin Listed
    /\ Available = 0

\* the pool call made by a step of SpecPool and what it returned
LastCall == plog[Len(plog)]
Called(op) == Len(plog) > 0 /\ LastCall.op = op

\* C18: a successful Allocate returns the address of lowest index in the
\* pool's list that is not allocated: it lies in the network, was not
\* allocated before the call, is allocated after it, and is none of the
\* network, broadcast and gateway addresses
C18_Step ==
    (ncalls' = ncalls + 1 /\ Called("Allocate")' /\ LastCall'.ok) =>
        LET ip == LastCall'.ip
        IN  /\ \E i \in 1..Len(available) :
                  /\ available[i] = ip
                  /\ \A j \in 1..(i - 1) : available[j] \in allocated
            /\ Contains(network, ip)
            /\ ip \notin allocated
            /\ ip \in allocated'
            /\ allocated' = allocated \cup {ip}
            /\ ip # MaskIP(network.IP, network.Mask)
            /\ ~isBroadcast(ip, network)
            /\ ip # Gateway(network)

C19_Step ==
    (ncalls' = ncalls + 1 /\ Called("Allocate")') =>
        /\ Available = 0 =>
              /\ ~LastCall'.ok
              /\ allocated' = allocated
              /\ available' = available
              /\ Available' = 0
        /\ (Called("Release") /\ LastCall.held /\ Available = 1) =>
              /\ LastCall'.ok
              /\ LastCall'.ip = LastCall.ip
              /\ Available' = 0

C19_Exhaustion == [][C19_Step]_vars

\* a pool of five addresses is exhausted and an Allocate fails; an address
\* other than the first is released and handed out again
C19_Witness ==
    /\ Len(plog) >= 3
    /\ plog[Len(plog) - 2].op = "Allocate" /\ ~plog[Len(plog) - 2].ok
    /\ plog[Len(plog) - 1].op = "Release" /\ plog[Len(plog) - 1].held
    /\ Called("Allocate") /\ LastCall.ok
    /\ LastCall.ip = plog[Len(plog) - 1].ip
    /\ LastCall.ip # available[1]
    /\ Len(available) >= 5
    /\ Available = 0

\* C20: Release is idempotent: after Release(X) the address X is not
\* allocated, a second Release(X) changes nothing, and a Release of an
\* address that is not allocated leaves the allocated set and Available()
\* as they were
C20_Step ==
    (ncalls' = ncalls + 1 /\ Called("Release")') =>
        LET X == LastCall'.ip
        IN  /\ X \notin allocated'
            /\ \A a \in allocated : a # X => a \in allocated'
            /\ (Called("Release") /\ LastCall.ip = X) =>
                  allocated' = allocated /\ Available' = Available
            /\ X \notin allocated =>
                  allocated' = allocated /\ Available' = Available

C20_ReleaseIdempotent == [][C20_Step]_vars

\* an allocated address has been released twice in a row while another one
\* stays allocated
C20_Witness ==
    /\ Len(plog) >= 2
    /\ plog[Len(plog) - 1].op = "Release" /\ plog[Len(plog) - 1].held
    /\ Called("Release") /\ ~LastCall.held
    /\ LastCall.ip = plog[Len(plog) - 1].ip
    /\ allocated # {}

\* C21: NewIPPool on a /31 or a /32 network returns an error and no pool
C21_NoPoolOnTinyNetwork ==
    MaskOnes(network.Mask) >= 31 => PoolNil /\ available = <<>> /\ allocated = {}

C21_Witness ==
    /\ network = Net(31)
    /\ PoolNil
    /\ \A ip \in {<<192, 168, 100, 0>>, <<192, 168, 100, 1>>} :
            /\ Contains(network, ip)
            /\ ip = network.IP \/ isBroadcast(ip, network)

(***************************************************************************)
(* Properties of the names VM.Start derives from the IP (SpecVal).         *)
(***************************************************************************)
\* the first GetOrCreateVM on an empty manager over 192.168.100.0/24 has
\* created its VM
FirstVM(t) ==
    /\ call[t].op = "GetOrCreateVM"
    /\ call[t].pc = "ret"
    /\ call[t].res = "ok"
    /\ ncalls = 1
    /\ network = Net(24)

\* C22 as stated: with VM CIDR 192.168.100.0/24 and an empty manager the
\* first VM created has IP 192.168.100.2, TAP device sshvm-tap-2 and MAC
\* address 02:FC:00:00:00:02
C22_FirstVMNames ==
    \A t \in Threads :
        FirstVM(t) =>
            LET vm == insts[vms[call[t].id]]
                n == VmNetID(vm.IP)
            IN  /\ vm.IP = <<192, 168, 100, 2>>
                /\ n \in taps
                /\ TapName(n) = <<"s", "s", "h", "v", "m", "-", "t", "a", "p", "-", "2">>
                /\ MacAddress(n) = <<"0", "2", ":", "F", "C", ":", "0", "0", ":", "0", "0", ":", "0", "0", ":", "0", "2">>

\* C22 amended: with VM CIDR 192.168.100.0/24 and an empty manager the first
\* VM created has IP 192.168.100.2; its TAP device is sshvm-tap-25602 and its
\* MAC address 02:FC:00:00:64:02, both derived from the last two bytes of the
\* IP (100 * 256 + 2)
C22_FirstVMNamesTwoBytes ==
    \A t \in Threads :
        FirstVM(t) =>
            LET vm == insts[vms[call[t].id]]
                n == VmNetID(vm.IP)
            IN  /\ vm.IP = <<192, 168, 100, 2>>
                /\ n \in taps
                /\ TapName(n) = <<"s", "s", "h", "v", "m", "-", "t", "a", "p", "-", "2", "5", "6", "0", "2">>
                /\ MacAddress(n) = <<"0", "2", ":", "F", "C", ":", "0", "0", ":", "0", "0", ":", "6", "4", ":", "0", "2">>

C22_Witness ==
    \E t \in Threads :
        /\ FirstVM(t)
        /\ DOMAIN vms = {call[t].id}
        /\ allocated = {<<192, 168, 100, 2>>}
        /\ taps # {}

(***************************************************************************)
(* Properties of the server process (SpecRun).                             *)
(***************************************************************************)
\* the rules of both chains that carry the tag
TaggedRules(rules) ==
    SelectSeq(rules.FORWARD, HasTag) \o SelectSeq(rules.POSTROUTING, HasTag)

\* the server ran and has shut down: drained after a signal, drain window
\* over, or listener error
Exited == srv.pc = "exited" /\ srv.exit \in {"drained", "timeout", "listener"}

C24_RulesAfterStartup ==
    srv.pc = "running" =>
        /\ SelectSeq(srv.rules.FORWARD, HasTag)
              = <<TaggedRule("fwdOut"), TaggedRule("fwdIn")>>
        /\ SelectSeq(srv.rules.POSTROUTING, HasTag) = <<TaggedRule("masq")>>

\* C25: when the server has shut down, whether or not the sessions ended
\* within the drain window, the stats were saved before Run returned and the
\* file has an entry for every user recorded during the run
C25_StatsSavedAtExit ==
    (Exited /\ srv.seen # {}) => srv.saved /\ srv.seen \subseteq srv.file

(***************************************************************************)
(* Properties of DestroyVM and GetVM.                                      *)
(***************************************************************************)
\* what the Manager keeps: maps, pool, Instances and their host resources
Kept == <<vms, vmRefs, available, allocated, insts, orphans, dirs, rootfs, taps>>

\* the steps of a DestroyVM call of t
C26_Step(t) ==
    /\ (call[t].pc = "idle" /\ call'[t].op = "DestroyVM")
          => /\ Kept' = Kept
             /\ IF call'[t].id \in DOMAIN vms
                THEN call'[t].pc = "stop" /\ call'[t].vm = vms[call'[t].id]
                ELSE call'[t].pc = "ret" /\ call'[t].res = "errNotFound"
    /\ (call[t].op = "DestroyVM" /\ call[t].pc = "stop" /\ call'[t] # call[t])
          => /\ call'[t].pc = "remove"
             /\ insts'[call[t].vm].proc = "stopped"
             /\ ~insts'[call[t].vm].machine
    /\ (call[t].op = "DestroyVM" /\ call[t].pc = "remove" /\ call'[t] # call[t])
          => /\ call'[t].pc = "ret" /\ call'[t].res = "ok"
             /\ call[t].id \notin DOMAIN vms'
             /\ call[t].id \notin DOMAIN vmRefs'
             /\ insts'[call[t].vm].IP \notin allocated'
    /\ (call[t].op = "DestroyVM" /\ call[t].pc = "ret" /\ call'[t] # call[t])
          => Kept' = Kept

\* C26: DestroyVM of an id in the map calls Stop, releases the IP and
\* removes both map entries whatever the reference count is; DestroyVM of
\* an id not in the map returns the not-found error and changes nothing.
C26_DestroyVM == [][\A t \in Threads : C26_Step(t)]_vars

\* a DestroyVM has stopped an Instance that two references still hold
C26_Witness ==
    \E t \in Threads :
        /\ call[t].op = "DestroyVM"
        /\ call[t].pc = "remove"
        /\ vmRefs[call[t].id] = 2
        /\ insts[call[t].vm].proc = "stopped"

\* the call of GetVM by t
C27_Step(t) ==
    (call[t].pc = "idle" /\ call'[t].op = "GetVM")
        => /\ Kept' = Kept
           /\ mutex' = mutex
           /\ call'[t].pc = "done"
           /\ IF call'[t].id \in DOMAIN vms
              THEN call'[t].res = "ok" /\ call'[t].vm = vms[call'[t].id]
              ELSE call'[t].res = "miss" /\ call'[t].vm = NoVM

\* C27: GetVM returns the Instance the map holds for an id in the map and
\* (nil, false) for an id not in it, and never changes the VM map, the
\* reference counts or the IP pool.
C27_GetVM == [][\A t \in Threads : C27_Step(t)]_vars

\* one GetVM has returned the Instance of an id with one reference, another
\* has missed an id that is not in the map
C27_Witness ==
    \E t1, t2 \in Threads :
        /\ call[t1].op = "GetVM" /\ call[t1].pc = "done" /\ call[t1].res = "ok"
        /\ call[t1].id \in DOMAIN vms
        /\ vms[call[t1].id] = call[t1].vm
        /\ vmRefs[call[t1].id] = 1
        /\ call[t2].op = "GetVM" /\ call[t2].pc = "done" /\ call[t2].res = "miss"
        /\ call[t2].id \notin DOMAIN vms

(***************************************************************************)
(* Properties of the reference counts and the lock.                        *)
(***************************************************************************)
\* Stop begins on Instance u in this step
StopBegins(u) ==
    /\ u \in DOMAIN insts'
    /\ insts[u].proc # "stopped"
    /\ insts'[u].proc = "stopped"

\* the steps of t that hand out, stop or insert an Instance
C28_Step(t) ==
    /\ (call[t].pc = "stop" /\ call'[t].pc = "remove")
          => \/ call[t].op = "DestroyVM"
             \/ /\ call[t].op = "ReleaseVM"
                /\ call[t].refCount = 0
                /\ vmRefs[call[t].id] = 0
    /\ (call[t].pc # "done" /\ call'[t].pc = "done" /\ call'[t].res = "ok")
          => /\ call'[t].op \in {"GetOrCreateVM", "GetVM", "none"}
             /\ insts'[call'[t].vm].proc # "stopped"
             /\ insts'[call'[t].vm].machine
    /\ (call[t].pc = "insert" /\ call'[t].pc = "ret")
          => /\ vmRefs'[call[t].id] = 1
             /\ vms'[call[t].id] = call[t].vm
             /\ call[t].id \notin DOMAIN vms
             /\ insts[call[t].vm].proc # "stopped"
             /\ \A id \in DOMAIN vms : vms[id] # call[t].vm
             /\ \A u \in DOMAIN insts :
                   (u # call[t].vm /\ insts[u].ID = call[t].id)
                      => insts[u].proc = "stopped"

\* C28: Stop is called on an Instance only by a ReleaseVM that has
\* decremented its reference count to zero, or by DestroyVM; a caller of
\* GetOrCreateVM or GetVM never receives an Instance on which Stop has
\* begun; and a GetOrCreateVM for an id whose Instance was stopped inserts a
\* fresh Instance with reference count 1.
C28_StopAfterLastRelease ==
    [][/\ \A t \in Threads : C28_Step(t)
       /\ \A u \in DOMAIN insts :
             StopBegins(u) => \E t \in Threads : call[t].pc = "stop" /\ call[t].vm = u]_vars

\* a ReleaseVM took the last reference of an id and stopped its Instance,
\* and a GetOrCreateVM that waited for the lock meanwhile has inserted a
\* fresh Instance of the id with one reference
C28_Witness ==
    \E t \in Threads :
        /\ call[t].op = "GetOrCreateVM" /\ call[t].pc = "ret" /\ call[t].res = "ok"
        /\ vmRefs[call[t].id] = 1
        /\ vms[call[t].id] = call[t].vm
        /\ insts[call[t].vm].proc = "running"
        /\ \E u \in DOMAIN insts :
              /\ u # call[t].vm
              /\ insts[u].ID = call[t].id
              /\ insts[u].proc = "stopped"

\* the step of t's GetOrCreateVM that obtains the lock, with a done context
C29_Step(t) ==
    (/\ call[t].op = "GetOrCreateVM"
     /\ call[t].pc = "lock"
     /\ call'[t].pc # "lock"
     /\ ctxDone[t])
        => /\ vmRefs' = vmRefs
           /\ vms' = vms
           /\ call'[t].res # "ok"

\* C29: a GetOrCreateVM whose context is cancelled before it obtains the
\* manager lock returns without incrementing a reference count and without
\* inserting an entry.
C29_CancelAtLock == [][\A t \in Threads : C29_Step(t)]_vars

\* the IPs of the VMs in the map
MapIPs == {insts[vms[id]].IP : id \in DOMAIN vms}

\* C30: whenever the manager lock is not held, the addresses allocated in
\* the pool are exactly the IPs of the VMs in the map, and distinct VMs hold
\* distinct IPs: creates, failed creates, releases and destroys leak no
\* address and leave no VM of the map without its address.
C30_PoolMatchesMap ==
    (mutex = NoThread)
        => /\ allocated = MapIPs
           /\ \A id1, id2 \in DOMAIN vms :
                 (id1 # id2) => insts[vms[id1]].IP # insts[vms[id2]].IP

\* the lock is free after a create that failed with its address allocated,
\* a removal that stopped an Instance, and a create that put a VM in the map
C30_Witness ==
    /\ mutex = NoThread
    /\ DOMAIN vms # {}
    /\ allocated # {}
    /\ \E u \in DOMAIN insts : insts[u].proc = "stopped"
    /\ \E t \in Threads :
          call[t].pc = "done" /\ call[t].res \in {"errMkdir", "errRootfs", "errStart"}

(***************************************************************************)
(* Properties of the TAP devices and the bridge.                           *)
(***************************************************************************)
\* the IPs of the VMs a TAP device or MAC address must not be shared with
\* by the create of t: the VMs in the map
OtherLiveIPs(t) == {insts[vms[id]].IP : id \in DOMAIN vms \ {call[t].id}}

C32_BridgeReady ==
    srv.mgr =>
        /\ srv.host.exists
        /\ srv.host.up
        /\ \E a \in srv.host.addr : a.ip = Gateway(network)
        /\ srv.host.fwd

\* C33: the address the program assigns to the bridge is the gateway of the
\* pool with the prefix length of the configured VM CIDR, for every CIDR
\* that Config.Validate accepts.
C33_BridgePrefix ==
    (ValidateCIDR(network) /\ srv.mgr) =>
        \A a \in srv.assigned :
            a = [ip |-> Gateway(network), ones |-> MaskOnes(network.Mask)]

(***************************************************************************)
(* Properties of the session's output and of the proxy.                    *)
(***************************************************************************)
\* C34: within a session no 100% bar is written to the session output, by
\* the renderer or by the handler's completion line, before the readiness
\* probe of the session has succeeded.
C34_FullBarAfterReady ==
    \A s \in Threads : sess[s].bar100 => sess[s].probed

\* the step of session s that attempts the inner dial
C36_Step(s) ==
    (sess[s].hpc = "dial" /\ sess'[s].hpc # "dial")
        => /\ ~sess[s].done
           /\ sess[s].perr = "none"

\* C36: the inner SSH dial to the VM is attempted only after a readiness
\* probe of the same session against the VM's address has succeeded, and
\* never after a probe timeout or after the session context was cancelled.
C36_DialAfterReady == [][\A s \in Threads : C36_Step(s)]_vars

\* the failures of the proxy the claim names
C37_Failures == {"dial", "session", "pty", "shell", "cancelled"}

\* the steps of session s after proxySSHToVM returned
C37_Step(s) ==
    /\ (sess[s].hpc = "return" /\ sess'[s].hpc # "return" /\ sess[s].perr \in C37_Failures)
          => /\ sess'[s].msg
             /\ sess'[s].hpc = "release"
             /\ sess'[s].releases = 0
    /\ (sess[s].msg /\ sess'[s].hpc = "closed")
          => sess[s].releases = 1 /\ sess'[s].releases = 1

\* C37: a proxy that fails at the inner dial, the session open, the pty or
\* the shell request, or that ends on cancellation of the outer session,
\* returns an error to the handler, which prints it and returns; the VM
\* reference is released exactly once in each of these cases.
C37_ProxyFailureReleasesOnce == [][\A s \in Threads : C37_Step(s)]_vars

\* a cancelled proxy has been reported and its reference released
C37_Witness ==
    \E s \in Threads : /\ sess[s].hpc = "releasing"
                       /\ sess[s].msg
                       /\ sess[s].done
                       /\ sess[s].releases = 1
                       /\ call[s].pc = "idle"

(***************************************************************************)
(* SpecSess: one session on a server of its own.  The handler and its      *)
(* goroutines are scheduled by the Go runtime, which lets every goroutine  *)
(* that can run take its next step; the client may cancel at any point.    *)
(***************************************************************************)
NextSess ==
    \/ \E id \in Ids : HandlerStart(Caller, id)
    \/ SessionOwnStep(Caller)
    \/ OuterCancel(Caller)
    \/ CtxKill(Caller)

SpecSess == Init /\ [][NextSess]_vars /\ WF_vars(SessionOwnStep(Caller))

\* the renderer of session s returns
C35_Step(s) ==
    (/\ sess[s].ppc = "run"
     /\ sess'[s].ppc = "done"
     /\ (sess[s].done \/ sess[s].vmCreateFailed))
        => sess'[s].cleared

\* the session is cancelled or its create has failed
C35_Ending(s) == sess[s].done \/ sess[s].vmCreateFailed

\* the renderer, the probe and the handler of session s have returned
C35_Ended(s) ==
    /\ sess[s].hpc = "closed"
    /\ sess[s].ppc # "run"
    /\ sess[s].rpc # "run"

\* C35: when the outer session is cancelled, at any point, and when the
\* create has failed, the renderer clears its row as it returns, and the
\* renderer and the probe do return, so that the handler, which waits for
\* the renderer, returns in the end.
C35_CancelEndsSession ==
    /\ [][C35_Step(Caller)]_vars
    /\ (C35_Ending(Caller) ~> C35_Ended(Caller))

\* a cancelled session whose renderer has cleared its row and returned
C35_Witness ==
    /\ sess[Caller].done
    /\ sess[Caller].cleared
    /\ sess[Caller].ppc = "done"
    /\ sess[Caller].hpc = "waitCancelled"

\* the step of createVMInternal that provides rootfs.img for t's create
C38_Step(t) ==
    (call[t].op = "GetOrCreateVM" /\ call[t].pc = "rootfs" /\ call'[t].pc = "tap")
        => /\ call[t].id \notin rootfs
           /\ call[t].id \in rootfs'

\* C38: every Instance GetOrCreateVM creates boots from a rootfs.img that
\* was copied from the template at that create, also when an Instance of
\* the same id was created and destroyed before: a create never goes on
\* with a rootfs.img that was in the scratch directory already.
C38_FreshRootfs == [][\A t \in Threads : C38_Step(t)]_vars

(***************************************************************************)
(* SpecHold: callers that keep the VM GetOrCreateVM returned and release   *)
(* it by its ID later, as sshHandler does with testVM, next to callers of  *)
(* DestroyVM.  sess[t].testVM is the Instance caller t holds.              *)
(***************************************************************************)
\* a caller without a VM asks for one
HoldBegin(t, id) ==
    /\ ~sess[t].acquired
    /\ BeginGetOrCreateVM(t, id)
    /\ UNCHANGED <<sess, plog, srv>>

\* testVM, err := GetOrCreateVM(ctx, id): the caller keeps the VM
HoldTake(t) ==
    /\ Take(t)
    /\ sess' = IF call[t].res = "ok"
               THEN [sess EXCEPT ![t].testVM = call[t].vm, ![t].acquired = TRUE]
               ELSE sess
    /\ UNCHANGED <<plog, srv>>

\* ReleaseVM(testVM.ID) by the holder of testVM
HoldRelease(t) ==
    /\ sess[t].acquired
    /\ RelLookup(t, insts[sess[t].testVM].ID)
    /\ sess' = [sess EXCEPT ![t].acquired = FALSE]
    /\ UNCHANGED <<plog, srv>>

NextHold ==
    \E t \in Threads :
        \/ \E id \in Ids : HoldBegin(t, id)
        \/ (\E id \in Ids : DestroyLookup(t, id)) /\ UNCHANGED <<sess, plog, srv>>
        \/ GocCheck(t) /\ UNCHANGED <<sess, plog, srv>>
        \/ CreateAlloc(t) /\ UNCHANGED <<sess, plog, srv>>
        \/ CreateMkdir(t) /\ UNCHANGED <<sess, plog, srv>>
        \/ CreateRootfs(t) /\ UNCHANGED <<sess, plog, srv>>
        \/ StartTap(t) /\ UNCHANGED <<sess, plog, srv>>
        \/ StartLaunch(t) /\ UNCHANGED <<sess, plog, srv>>
        \/ StartPid(t) /\ UNCHANGED <<sess, plog, srv>>
        \/ GocInsert(t) /\ UNCHANGED <<sess, plog, srv>>
        \/ VMStop(t) /\ UNCHANGED <<sess, plog, srv>>
        \/ VMRemove(t) /\ UNCHANGED <<sess, plog, srv>>
        \/ Ret(t) /\ UNCHANGED <<sess, plog, srv>>
        \/ HoldTake(t)
        \/ HoldRelease(t)

SpecHold == Init /\ [][NextHold]_vars

\* the step of ReleaseVM that decrements a reference count, called by the
\* holder t of the Instance sess[t].testVM
C40_Step(t) ==
    (/\ sess[t].acquired
     /\ call[t].pc = "idle"
     /\ call'[t].op = "ReleaseVM"
     /\ call'[t].pc # "idle"
     /\ call'[t].res # "errNotFound")
        => call'[t].vm = sess[t].testVM

\* C40: a ReleaseVM call decrements the reference count of the Instance
\* its caller acquired and of no other: when DestroyVM has removed that
\* Instance and a fresh Instance of the same id is in the map, the late
\* ReleaseVM of a holder of the destroyed one leaves the fresh one alone.
C40_ReleaseOwnInstance == [][\A t \in Threads : C40_Step(t)]_vars

(***************************************************************************)
(* SpecConc: goroutines that call one IPPool at the same time.  Every      *)
(* method begins with p.mu.Lock() and ends with the deferred Unlock; its   *)
(* body runs one statement at a time.  A caller that got an address from   *)
(* Allocate holds it until it releases it.                                 *)
(***************************************************************************)
\* a caller with no pool call in progress and no address
IdlePoolCall == [op |-> "none", pc |-> "idle", ip |-> NoIP, held |-> FALSE,
                 arg |-> NoIP, isAlloc |-> FALSE, n |-> 0]

InitConc ==
    /\ cap = 0
    /\ \E nw \in ManagerNets :
          /\ NewIPPoolOk(nw)
          /\ network = nw
          /\ available = NewIPPoolList(nw)
    /\ allocated = {}
    /\ mutex = NoThread
    /\ vms = <<>>
    /\ vmRefs = <<>>
    /\ insts = <<>>
    /\ orphans = {}
    /\ dirs = {}
    /\ rootfs = {}
    /\ taps = {}
    /\ call = [t \in Threads |-> IdlePoolCall]
    /\ ncalls = 0
    /\ ctxDone = [t \in Threads |-> FALSE]
    /\ sess = [t \in Threads |-> IdleSess]
    /\ plog = <<>>
    /\ srv = IdleSrv

concFrame == <<cap, network, available, vms, vmRefs, insts, orphans, dirs, rootfs,
               taps, ncalls, ctxDone, sess, plog, srv>>

\* a Lock() that does not wait for the holder
MuLockNoWait(t) == TRUE

\* p.mu.Lock() succeeds
MuLock(t) == mutex = NoThread

\* the addresses in the pool's list
PoolIPs == {available[i] : i \in DOMAIN available}

\* a pool method is called and takes the lock: Allocate by a caller that
\* holds no address, Release of the address the caller holds, IsAllocated
\* of any address of the list, Available
PoolCall(t, op, ip) ==
    /\ call[t].pc = "idle"
    /\ (op = "Allocate") => ~call[t].held
    /\ (op = "Release") => call[t].held /\ ip = call[t].ip
    /\ MuLock(t)
    /\ mutex' = t
    /\ call' = [call EXCEPT ![t].op = op, ![t].pc = "body", ![t].arg = ip]
    /\ UNCHANGED <<allocated, concFrame>>

\* Allocate: the loop over p.available up to the first address with
\* !p.allocated[ipStr], or to the end of the list
AllocScan(t) ==
    /\ call[t].op = "Allocate"
    /\ call[t].pc = "body"
    /\ LET i == AllocIndex(available, allocated)
       IN  call' = IF i = 0 THEN [call EXCEPT ![t].pc = "unlock"]
                   ELSE [call EXCEPT ![t].ip = available[i], ![t].pc = "mark"]
    /\ UNCHANGED <<allocated, mutex, concFrame>>

\* Allocate: p.allocated[ipStr] = true; return ip, nil
AllocMark(t) ==
    /\ call[t].pc = "mark"
    /\ allocated' = allocated \cup {call[t].ip}
    /\ call' = [call EXCEPT ![t].held = TRUE, ![t].pc = "unlock"]
    /\ UNCHANGED <<mutex, concFrame>>

\* Release: delete(p.allocated, ipStr)
ReleaseDelete(t) ==
    /\ call[t].op = "Release"
    /\ call[t].pc = "body"
    /\ allocated' = PoolRelease(allocated, call[t].arg)
    /\ call' = [call EXCEPT ![t].held = FALSE, ![t].ip = NoIP, ![t].pc = "unlock"]
    /\ UNCHANGED <<mutex, concFrame>>

\* IsAllocated: return p.allocated[ip.String()]
IsAllocatedRead(t) ==
    /\ call[t].op = "IsAllocated"
    /\ call[t].pc = "body"
    /\ call' = [call EXCEPT ![t].isAlloc = call[t].arg \in allocated, ![t].pc = "unlock"]
    /\ UNCHANGED <<allocated, mutex, concFrame>>

\* Available: return len(p.available) - len(p.allocated)
AvailableCount(t) ==
    /\ call[t].op = "Available"
    /\ call[t].pc = "body"
    /\ call' = [call EXCEPT ![t].n = Available, ![t].pc = "unlock"]
    /\ UNCHANGED <<allocated, mutex, concFrame>>

\* the deferred p.mu.Unlock() and the return; the caller keeps the address
\* Allocate returned
PoolReturn(t) ==
    /\ call[t].pc = "unlock"
    /\ mutex' = NoThread
    /\ call' = [call EXCEPT ![t] = [IdlePoolCall EXCEPT !.ip = call[t].ip,
                                                       !.held = call[t].held]]
    /\ UNCHANGED <<allocated, concFrame>>

NextConc ==
    \E t \in Threads :
        \/ PoolCall(t, "Allocate", NoIP)
        \/ \E ip \in PoolIPs : PoolCall(t, "Release", ip)
        \/ \E ip \in PoolIPs : PoolCall(t, "IsAllocated", ip)
        \/ PoolCall(t, "Available", NoIP)
        \/ AllocScan(t)
        \/ AllocMark(t)
        \/ ReleaseDelete(t)
        \/ IsAllocatedRead(t)
        \/ AvailableCount(t)
        \/ PoolReturn(t)

SpecConc == InitConc /\ [][NextConc]_vars

\* the addresses the callers other than t hold
C39_HeldByOthers(t) == {call[u].ip : u \in {v \in Threads \ {t} : call[v].held}}

\* the addresses the callers hold
C39_Held == {call[u].ip : u \in {v \in Threads : call[v].held}}

\* the result of t's call is the one the method gives when it runs alone on
\* the pool in which exactly the held addresses are allocated
C39_Result(t) ==
    (call[t].pc = "unlock") =>
        /\ (call[t].op = "Allocate") =>
               LET i == AllocIndex(available, C39_HeldByOthers(t))
               IN  IF call[t].held THEN i > 0 /\ call[t].ip = available[i]
                   ELSE i = 0
        /\ (call[t].op = "Release") => call[t].arg \notin C39_Held
        /\ (call[t].op = "IsAllocated") => (call[t].isAlloc <=> call[t].arg \in C39_Held)
        /\ (call[t].op = "Available") =>
               call[t].n = Len(available) - Cardinality(C39_Held)

\* C39: whatever the interleaving of concurrent Allocate, Release,
\* IsAllocated and Available calls, the pool behaves as if the calls ran
\* one at a time: every call returns what it returns when run alone on the
\* pool of the addresses held, the map holds exactly the held addresses
\* between calls, and no address is held by two callers, so two Allocate
\* calls return the same address only if it was released between them.
C39_Linearizable ==
    /\ \A t, u \in Threads :
          (t # u /\ call[t].held /\ call[u].held) => call[t].ip # call[u].ip
    /\ (mutex = NoThread) => allocated = C39_Held
    /\ \A t \in Threads : C39_Result(t)

\* two callers hold an address each and a third call is answered
C39_Witness ==
    \E t, u \in Threads :
        /\ t # u
        /\ call[t].held
        /\ call[u].held
        /\ call[u].pc = "unlock"
        /\ call[u].op = "IsAllocated"
        /\ call[u].arg = call[t].ip
        /\ call[u].isAlloc

=============================================================================
